---------------------------- MODULE Spec2Model ----------------------------
(***************************************************************************)
(* A model of gh-rag: the ingestion pipeline (chunkDocs, embedInBatches,   *)
(* fitMetadata, batched upsert), the hybrid retriever (rrf, hybridSearch)  *)
(* and the TTL cache.                                                      *)
(*                                                                         *)
(* Strings of the program that are only compared or concatenated (repo,    *)
(* path, chunk ids, cache keys) are TLA+ strings.  A text whose UTF-16     *)
(* code units matter (slice, length, JSON byte size) is a run-length       *)
(* encoded sequence of code units: <<[c |-> "a", n |-> 3]>> is "aaa".      *)
(***************************************************************************)
EXTENDS Integers, Sequences, FiniteSets, TLC

VARIABLES
    pure,         \* harness of the pure functions: [op, in, out]
    now,          \* Date.now(), in ms
    searchCache,  \* Map<string, CacheEntry<any[]>>, as a function on its keys
    embedCache,   \* Map<string, CacheEntry<number[]>>
    setLog,       \* history: per key, the time, ttl and value of the last setCache
    files,        \* the repository snapshot: the files of the working tree
    store,        \* the vector store: namespace -> set of {id, values, metadata}
    ing,          \* the ingestRepo invocation in flight (or finished)
    runs,         \* history: outcomes of the finished ingestRepo runs, in order
    lex,          \* the lexical side: the .bm25.jsonl file and MiniSearch
    last,         \* history: what the last retrieval call did and returned
    searches,     \* the hybridSearch calls that overlap: in flight and returned
    pool          \* the ingestRepo tasks of one bulk ingestion, under pLimit

vars == <<pure, now, searchCache, embedCache, setLog, files, store, ing, runs, lex, last,
         searches, pool>>

None == "none"

Min(a, b) == IF a <= b THEN a ELSE b

Max(a, b) == IF a >= b THEN a ELSE b

(***************************************************************************)
(* Texts: run-length encoded UTF-16 code units.                            *)
(*   "a"     an ASCII letter              (1 byte in JSON)                 *)
(*   " "     a blank                      (1 byte)                         *)
(*   "q"     a double quote               (2 bytes, escaped \")            *)
(*   "u2026" the ellipsis U+2026          (3 bytes)                        *)
(*   "hi"    a high surrogate, "lo" a low surrogate: a pair hi lo is one   *)
(*           4-byte character; a lone surrogate is written \udXXX by       *)
(*           JSON.stringify (6 bytes)                                      *)
(***************************************************************************)
EmptyText == << >>

Ellipsis == <<[c |-> "u2026", n |-> 1]>>

RECURSIVE TextLen(_)
TextLen(t) == IF t = << >> THEN 0 ELSE Head(t).n + TextLen(Tail(t))

\* String.prototype.concat on texts, keeping the encoding canonical
TextConcat(t, u) ==
    IF t = << >> THEN u
    ELSE IF u = << >> THEN t
    ELSE IF t[Len(t)].c = u[1].c
         THEN SubSeq(t, 1, Len(t) - 1)
              \o <<[c |-> u[1].c, n |-> t[Len(t)].n + u[1].n]>>
              \o Tail(u)
         ELSE t \o u

\* slice(0, k) of a text (or of any run-length encoded sequence)
RECURSIVE TextTake(_, _)
TextTake(t, k) ==
    IF k <= 0 \/ t = << >> THEN << >>
    ELSE IF Head(t).n >= k THEN <<[Head(t) EXCEPT !.n = k]>>
    ELSE <<Head(t)>> \o TextTake(Tail(t), k - Head(t).n)

\* slice(k)
RECURSIVE TextDrop(_, _)
TextDrop(t, k) ==
    IF k <= 0 \/ t = << >> THEN t
    ELSE IF Head(t).n > k THEN <<[Head(t) EXCEPT !.n = Head(t).n - k]>> \o Tail(t)
    ELSE TextDrop(Tail(t), k - Head(t).n)

\* slice(from, to)
TextSlice(t, from, to) == TextTake(TextDrop(t, from), to - from)

\* text.trim().length === 0
IsBlank(t) == \A i \in 1..Len(t) : t[i].c = " "

UnitBytes(c) ==
    CASE c = "a" -> 1
      [] c = " " -> 1
      [] c = "q" -> 2
      [] c = "u2026" -> 3
      [] OTHER -> 6

\* Buffer.byteLength of the characters of a JSON string literal (without the
\* quotes); open = the previous code unit is a high surrogate still unpaired
RECURSIVE JsonBytesFrom(_, _)
JsonBytesFrom(t, open) ==
    IF t = << >> THEN (IF open THEN 6 ELSE 0)
    ELSE LET r == Head(t) IN
         CASE r.c = "hi" ->
                (IF open THEN 6 ELSE 0) + 6 * (r.n - 1) + JsonBytesFrom(Tail(t), TRUE)
           [] r.c = "lo" ->
                (IF open THEN 4 + 6 * (r.n - 1) ELSE 6 * r.n)
                + JsonBytesFrom(Tail(t), FALSE)
           [] OTHER ->
                (IF open THEN 6 ELSE 0) + UnitBytes(r.c) * r.n
                + JsonBytesFrom(Tail(t), FALSE)

JsonBytes(t) == JsonBytesFrom(t, FALSE)

(***************************************************************************)
(* fitMetadata                                                             *)
(***************************************************************************)
MODEL == "text-embedding-3-large"

DefaultMaxBytes == 40960

\* the bytes JSON.stringify writes for the value of field f
FieldBytes(f, v) ==
    CASE f = "text" -> 2 + JsonBytes(v)
      [] f = "truncated" -> 4
      [] f \in {"start", "end", "tokens"} -> Len(ToString(v))
      [] OTHER -> 2 + Len(v)

RECURSIVE FieldsBytes(_, _)
FieldsBytes(m, fs) ==
    IF fs = {} THEN 0
    ELSE LET f == CHOOSE x \in fs : TRUE IN
         Len(f) + 3 + FieldBytes(f, m[f]) + FieldsBytes(m, fs \ {f})

\* const encodeSize = (m) => Buffer.byteLength(JSON.stringify(m), "utf8")
encodeSize(m) ==
    2 + FieldsBytes(m, DOMAIN m) + (Cardinality(DOMAIN m) - 1)

\* a candidate that keeps only the fields it sets
OnlyTextTruncated(cur, t) == [text |-> t, truncated |-> TRUE]

\* { ...cur, text: t, truncated: true }
WithTextTruncated(cur, t) ==
    [f \in (DOMAIN cur) \cup {"text", "truncated"} |->
        IF f = "text" THEN t ELSE IF f = "truncated" THEN TRUE ELSE cur[f]]

\* let best: { obj, size } | null = null
NoBest == [found |-> FALSE]

\* the while (lo <= hi) loop of fitMetadata; best is the last candidate that
\* fitted
RECURSIVE fitSearch(_, _, _, _, _)
fitSearch(cur, lo, hi, best, maxBytes) ==
    IF lo > hi THEN best
    ELSE LET mid == (lo + hi) \div 2
             candidate ==
                 WithTextTruncated(cur, TextConcat(TextTake(cur.text, mid), Ellipsis))
             s == encodeSize(candidate)
         IN  IF s <= maxBytes
             THEN fitSearch(cur, mid + 1, hi,
                            [found |-> TRUE, obj |-> candidate, size |-> s], maxBytes)
             ELSE fitSearch(cur, lo, mid - 1, best, maxBytes)

\* fitMetadata without its first return: the search runs on every record
fitMetadataAlwaysSearch(meta, maxBytes) ==
    IF "text" \notin DOMAIN meta \/ TextLen(meta.text) = 0 THEN meta
    ELSE LET best == fitSearch(meta, 0, TextLen(meta.text), NoBest, maxBytes)
         IN  IF best.found THEN best.obj
             ELSE WithTextTruncated(meta, EmptyText)

fitMetadata(meta, maxBytes) ==
    IF encodeSize(meta) <= maxBytes THEN meta
    ELSE IF "text" \notin DOMAIN meta \/ TextLen(meta.text) = 0 THEN meta
    ELSE LET best == fitSearch(meta, 0, TextLen(meta.text), NoBest, maxBytes)
         IN  IF best.found THEN best.obj
             ELSE WithTextTruncated(meta, EmptyText)

(***************************************************************************)
(* The tokenizer (gpt-tokenizer) and chunkDocs.                            *)
(*                                                                         *)
(* encode splits each run of equal code units into tokens: letters merge   *)
(* into tokens of up to 12 code units, any other code unit is a token of   *)
(* its own.  A token sequence is run-length encoded like a text:           *)
(* [c |-> "a", w |-> 12, n |-> 3] is three tokens of twelve letters each.  *)
(* decode writes the code units of the tokens back.                        *)
(***************************************************************************)
MAX_TOKENS == 8192

CHUNK_TOKENS == 4000

BATCH_SIZE == 64

TokenWidth(c) == IF c = "a" THEN 12 ELSE 1

RECURSIVE encode(_)
encode(t) ==
    IF t = << >> THEN << >>
    ELSE LET r == Head(t)
             w == TokenWidth(r.c)
             whole == IF r.n \div w > 0
                      THEN <<[c |-> r.c, w |-> w, n |-> r.n \div w]>> ELSE << >>
             rest == IF r.n % w > 0
                     THEN <<[c |-> r.c, w |-> r.n % w, n |-> 1]>> ELSE << >>
         IN  whole \o rest \o encode(Tail(t))

RECURSIVE decode(_)
decode(ids) ==
    IF ids = << >> THEN EmptyText
    ELSE TextConcat(<<[c |-> Head(ids).c, n |-> Head(ids).w * Head(ids).n]>>,
                    decode(Tail(ids)))

\* `${repo}:${d.path}:${i}-${i + slice.length}`
ChunkIdNoPath(repo, path, i, e) ==
    repo \o ":" \o ToString(i) \o "-" \o ToString(e)

ChunkIdNoRange(repo, path, i, e) == repo \o ":" \o path

ChunkId(repo, path, i, e) ==
    repo \o ":" \o path \o ":" \o ToString(i) \o "-" \o ToString(e)

\* ids.slice(i, i + CHUNK_TOKENS)
TokenSliceOverlapping(ids, i) == TextSlice(ids, i, i + CHUNK_TOKENS + 1)

TokenSlice(ids, i) == TextSlice(ids, i, i + CHUNK_TOKENS)

\* the record pushed for one slice
MakeChunkFixedTokens(repo, path, i, slice) ==
    [id |-> ChunkId(repo, path, i, i + TextLen(slice)),
     repo |-> repo,
     path |-> path,
     start |-> i,
     end |-> i + TextLen(slice),
     tokens |-> CHUNK_TOKENS,
     text |-> decode(slice)]

MakeChunk(repo, path, i, slice) ==
    [id |-> ChunkId(repo, path, i, i + TextLen(slice)),
     repo |-> repo,
     path |-> path,
     start |-> i,
     end |-> i + TextLen(slice),
     tokens |-> TextLen(slice),
     text |-> decode(slice)]

\* the inner for loop of chunkDocs, from token i of the file
RECURSIVE chunkFile(_, _, _, _)
chunkFile(repo, path, ids, i) ==
    IF ~(i < TextLen(ids)) THEN << >>
    ELSE <<MakeChunk(repo, path, i, TokenSlice(ids, i))>>
         \o chunkFile(repo, path, ids, i + CHUNK_TOKENS)

RECURSIVE chunkDocs(_, _)
chunkDocs(repo, docs) ==
    IF docs = << >> THEN << >>
    ELSE chunkFile(repo, Head(docs).path, encode(Head(docs).text), 0)
         \o chunkDocs(repo, Tail(docs))

(***************************************************************************)
(* rrf.  A score 1/(k+ra) + 1/(k+rb) is kept as the exact fraction         *)
(* [num, den]; scores are compared by cross-multiplication.                *)
(***************************************************************************)
IdsOf(arr) == [i \in DOMAIN arr |-> arr[i].id]

\* const rank = (arr) => Object.fromEntries(arr.map((x, i) => [x.id, i + 1]))
\* (of two entries with one key the later wins)
rankZeroBased(arr) ==
    [id \in { arr[i].id : i \in DOMAIN arr } |->
        (CHOOSE i \in DOMAIN arr :
            arr[i].id = id /\ \A j \in DOMAIN arr : arr[j].id = id => j <= i) - 1]

rank(arr) ==
    [id \in { arr[i].id : i \in DOMAIN arr } |->
        CHOOSE i \in DOMAIN arr :
            arr[i].id = id /\ \A j \in DOMAIN arr : arr[j].id = id => j <= i]

\* ra[id] || 999
rankOrZero(r, id) == IF id \in DOMAIN r /\ r[id] # 0 THEN r[id] ELSE 0

rankOr999(r, id) == IF id \in DOMAIN r /\ r[id] # 0 THEN r[id] ELSE 999

\* 1 / (k + x) + 1 / (k + y)
RecipSum(k, x, y) == [num |-> (k + y) + (k + x), den |-> (k + x) * (k + y)]

ScoreGt(p, q) == p.num * q.den > q.num * p.den

ScoreEq(p, q) == p.num * q.den = q.num * p.den

\* [...new Set(ids)]: each id once, in the order of first insertion
Dedupe(ids) ==
    LET firsts == SelectSeq([i \in DOMAIN ids |-> [id |-> ids[i], at |-> i]],
                            LAMBDA x : \A j \in 1..(x.at - 1) : ids[j] # x.id)
    IN  [p \in DOMAIN firsts |-> firsts[p].id]

\* Array.prototype.sort((x, y) => y.score - x.score), which is stable: x comes
\* before y when it scores more, or the same and was before y
SortedAscending(x, y) ==
    \/ ScoreGt(y.score, x.score)
    \/ ScoreEq(x.score, y.score) /\ x.at < y.at

SortedBefore(x, y) ==
    \/ ScoreGt(x.score, y.score)
    \/ ScoreEq(x.score, y.score) /\ x.at < y.at

SortByScoreDesc(items) ==
    LET sorted == SortSeq([i \in DOMAIN items |->
                              [id |-> items[i].id, score |-> items[i].score, at |-> i]],
                          SortedBefore)
    IN  [p \in DOMAIN sorted |-> [id |-> sorted[p].id, score |-> sorted[p].score]]

rrf(a, b, k) ==
    LET ra == rank(a)
        rb == rank(b)
        ids == Dedupe(IdsOf(a) \o IdsOf(b))
        scored == [i \in DOMAIN ids |->
                     [id |-> ids[i],
                      score |-> RecipSum(k, rankOr999(ra, ids[i]), rankOr999(rb, ids[i]))]]
    IN  SortByScoreDesc(scored)

DefaultK == 60

(***************************************************************************)
(* The TTL cache: getCache and setCache on a Map, at the time t = NOW().   *)
(***************************************************************************)
MapSet(m, k, v) == [x \in (DOMAIN m) \cup {k} |-> IF x = k THEN v ELSE m[x]]

MapDelete(m, k) == [x \in (DOMAIN m) \ {k} |-> m[x]]

Undefined == [hit |-> FALSE]

\* hit.expires < NOW()
ExpiredAtDeadline(entry, t) == entry.expires <= t

Expired(entry, t) == entry.expires < t

\* what getCache(map, key) returns
getCache(map, key, t) ==
    IF key \notin DOMAIN map THEN Undefined
    ELSE IF Expired(map[key], t) THEN Undefined
    ELSE [hit |-> TRUE, value |-> map[key].value]

\* a lookup that also sweeps the other expired entries
afterGetCacheSweeping(map, key, t) ==
    [x \in { k \in DOMAIN map : ~Expired(map[k], t) } |-> map[x]]

\* the map after getCache(map, key): an expired entry is deleted
afterGetCache(map, key, t) ==
    IF key \in DOMAIN map /\ Expired(map[key], t) THEN MapDelete(map, key) ELSE map

\* the map after setCache(map, key, value, ttlMs)
setCache(map, key, value, ttlMs, t) ==
    MapSet(map, key, [value |-> value, expires |-> t + ttlMs])

(***************************************************************************)
(* Idle values: what a specification leaves untouched.                     *)
(***************************************************************************)
EmptyMap == [k \in {} |-> None]

NoCall == [op |-> None, in |-> << >>, out |-> << >>]

IdlePure == pure = NoCall

IdleCache ==
    /\ now = 0
    /\ searchCache = EmptyMap
    /\ embedCache = EmptyMap
    /\ setLog = EmptyMap

IdleIngest ==
    /\ files = << >>
    /\ store = EmptyMap
    /\ ing = [pc |-> "idle"]
    /\ runs = << >>

IdleSearch ==
    /\ lex = [file |-> "absent", mini |-> TRUE, hits |-> << >>]
    /\ last = [op |-> None]

IdleCalls ==
    /\ searches = << >>
    /\ pool = [pc |-> "idle"]

(***************************************************************************)
(* SpecFit: fitMetadata applied to a record and a budget.                  *)
(***************************************************************************)
MaxTextLen == 3

MaxSlack == 30

FitUnits == {"a", "q", "hi", "lo"}

\* the text made of the code units of the sequence s
RECURSIVE TextOf(_)
TextOf(s) ==
    IF s = << >> THEN EmptyText
    ELSE TextConcat(<<[c |-> Head(s), n |-> 1]>>, TextOf(Tail(s)))

\* the letters that follow the first code units of a long text
LongTail == 36

\* every text of up to MaxTextLen code units, and the texts of two code units
\* followed by LongTail letters
FitTexts ==
    { TextOf(s) : s \in UNION { [1..k -> FitUnits] : k \in 0..MaxTextLen } }
    \cup { TextConcat(TextOf(s), <<[c |-> "a", n |-> LongTail]>>) : s \in [1..2 -> FitUnits] }

BaseMeta ==
    [repo |-> "r", path |-> "a.ts", start |-> 0, end |-> 4000, tokens |-> 4000,
     model |-> MODEL]

\* { ...m, text: t }
WithText(m, t) ==
    [f \in (DOMAIN m) \cup {"text"} |-> IF f = "text" THEN t ELSE m[f]]

\* a record with a field of its caller's
ExtraMeta == [f \in (DOMAIN BaseMeta) \cup {"lang"} |->
                 IF f = "lang" THEN "ts" ELSE BaseMeta[f]]

\* the records without text, with every text, and with a field more and a
\* text of one code unit or a long one
FitMetas ==
    {BaseMeta, ExtraMeta} \cup { WithText(BaseMeta, t) : t \in FitTexts }
    \cup { WithText(ExtraMeta, t) : t \in { x \in FitTexts : TextLen(x) \notin 2..MaxTextLen } }

\* the serialized size of the record with its text replaced by ""
SizeNoText(m) == encodeSize(WithText(m, EmptyText))

FitBudgets(m) ==
    { SizeNoText(m) + d : d \in (0 - 2)..MaxSlack } \cup {DefaultMaxBytes}

InitFit ==
    /\ \E m \in FitMetas : \E b \in FitBudgets(m) :
           pure = [op |-> "fit", in |-> [meta |-> m, maxBytes |-> b], out |-> << >>]
    /\ IdleCache /\ IdleCalls /\ IdleIngest /\ IdleSearch

Fit ==
    /\ pure.op = "fit"
    /\ pure.out = << >>
    /\ pure' = [pure EXCEPT !.out = <<fitMetadata(pure.in.meta, pure.in.maxBytes)>>]
    /\ UNCHANGED <<now, searchCache, embedCache, setLog, files, store, ing, runs, lex, last, searches, pool>>

NextFit == Fit

SpecFit == InitFit /\ [][NextFit]_vars

FitDone == pure.op = "fit" /\ pure.out # << >>

\* C3: for a budget of at least the size of the record with its text replaced
\* by the empty string, fitMetadata returns a record whose serialized size is
\* at most the budget.
C3_FitWithinBudget ==
    (FitDone /\ pure.in.maxBytes >= SizeNoText(pure.in.meta))
        => encodeSize(pure.out[1]) <= pure.in.maxBytes

\* what the code does guarantee: 17 more bytes, the cost of truncated:true
FitWithinBudgetPlusFlag ==
    (FitDone /\ pure.in.maxBytes >= SizeNoText(pure.in.meta) + 17)
        => encodeSize(pure.out[1]) <= pure.in.maxBytes

(***************************************************************************)
(* SpecChunk: chunkDocs applied, twice, to a repository name and a file    *)
(* list.                                                                   *)
(***************************************************************************)
MaxDocs == 2

ChunkRepos == {"r", "r:a.ts"}

ChunkPaths == {"a.ts", "a.ts:0-4000", "b"}

Run(c, n) == IF n = 0 THEN EmptyText ELSE <<[c |-> c, n |-> n]>>

\* texts of 0, 1, 1, 4000, 4001, 4001 and 10000 tokens
ChunkTexts ==
    { Run("a", 12 * k) : k \in {0, 1, 4000, 4001, 10000} }
    \cup { Run("a", 7), TextConcat(Run("a", 12 * 3999), Run("q", 2)) }

ChunkDocs == [path : ChunkPaths, text : ChunkTexts]

DistinctPaths(docs) ==
    \A i, j \in DOMAIN docs : i # j => docs[i].path # docs[j].path

DocLists ==
    { docs \in UNION { [1..k -> ChunkDocs] : k \in 0..MaxDocs } : DistinctPaths(docs) }

InitChunk ==
    /\ \E r \in ChunkRepos : \E docs \in DocLists :
           pure = [op |-> "chunk", in |-> [repo |-> r, docs |-> docs], out |-> << >>]
    /\ IdleCache /\ IdleCalls /\ IdleIngest /\ IdleSearch

Chunk ==
    /\ pure.op = "chunk"
    /\ Len(pure.out) < 2
    /\ pure' = [pure EXCEPT !.out = Append(@, chunkDocs(pure.in.repo, pure.in.docs))]
    /\ UNCHANGED <<now, searchCache, embedCache, setLog, files, store, ing, runs, lex, last, searches, pool>>

NextChunk == Chunk

SpecChunk == InitChunk /\ [][NextChunk]_vars

ChunkDone == pure.op = "chunk" /\ pure.out # << >>

NumTokens(text) == TextLen(encode(text))

NumWindows(N) == (N + CHUNK_TOKENS - 1) \div CHUNK_TOKENS

\* the windows [j*max, min((j+1)*max, N)), j = 0, 1, ..., of a file of N tokens
Windows(path, N) ==
    [j \in 1..NumWindows(N) |->
        [path |-> path,
         start |-> (j - 1) * CHUNK_TOKENS,
         end |-> Min(j * CHUNK_TOKENS, N)]]

RECURSIVE AllWindows(_)
AllWindows(docs) ==
    IF docs = << >> THEN << >>
    ELSE Windows(Head(docs).path, NumTokens(Head(docs).text)) \o AllWindows(Tail(docs))

RECURSIVE SumTokens(_)
SumTokens(chunks) ==
    IF chunks = << >> THEN 0 ELSE Head(chunks).tokens + SumTokens(Tail(chunks))

OfPath(chunks, path) == SelectSeq(chunks, LAMBDA c : c.path = path)

\* C4: for a file of N tokens chunkDocs emits, in order, exactly the windows
\* [j*max, min((j+1)*max, N)) while j*max < N: they tile [0, N) without gap or
\* overlap and the token counts of the file's chunks sum to N.
C4_WindowsTile ==
    ChunkDone =>
        LET out == pure.out[1]
            want == AllWindows(pure.in.docs)
        IN  /\ Len(out) = Len(want)
            /\ \A k \in DOMAIN out :
                   /\ out[k].path = want[k].path
                   /\ out[k].start = want[k].start
                   /\ out[k].end = want[k].end
            /\ \A d \in DOMAIN pure.in.docs :
                   SumTokens(OfPath(out, pure.in.docs[d].path))
                       = NumTokens(pure.in.docs[d].text)

\* a file of 10000 tokens has been chunked into [0,4000), [4000,8000), [8000,10000)
C4_Witness ==
    /\ ChunkDone
    /\ \E d \in DOMAIN pure.in.docs :
           /\ NumTokens(pure.in.docs[d].text) = 10000
           /\ LET fc == OfPath(pure.out[1], pure.in.docs[d].path)
              IN  /\ Len(fc) = 3
                  /\ <<fc[1].start, fc[1].end>> = <<0, 4000>>
                  /\ <<fc[2].start, fc[2].end>> = <<4000, 8000>>
                  /\ <<fc[3].start, fc[3].end>> = <<8000, 10000>>

\* C5: every chunk emitted by chunkDocs has end - start = tokens and
\* 1 <= tokens <= CHUNK_TOKENS.
C5_ChunkBounds ==
    ChunkDone =>
        \A k \in DOMAIN pure.out[1] :
            LET c == pure.out[1][k]
            IN  c.end - c.start = c.tokens /\ 1 <= c.tokens /\ c.tokens <= CHUNK_TOKENS

\* a full chunk and a shorter last chunk have been emitted
C5_Witness ==
    /\ ChunkDone
    /\ \E k \in DOMAIN pure.out[1] : pure.out[1][k].tokens = CHUNK_TOKENS
    /\ \E k \in DOMAIN pure.out[1] : pure.out[1][k].tokens = 1

IdSet(chunks) == { chunks[k].id : k \in DOMAIN chunks }

ChunkSet(chunks) == { chunks[k] : k \in DOMAIN chunks }

ChunkKey(c) == <<c.path, c.start, c.end>>

\* every chunk that a file of ChunkDocs yields in repository repo
ChunksOfRepo(repo) ==
    UNION { ChunkSet(chunkDocs(repo, <<d>>)) : d \in ChunkDocs }

\* C6: chunk ids are a deterministic function of (repo, path, start, end):
\* chunking the same (repo, path, text) twice yields the same set of ids, and
\* within one repository two chunks have the same id exactly when they have
\* the same (path, start, end).
C6_ChunkIds ==
    /\ (pure.op = "chunk" /\ Len(pure.out) = 2)
           => IdSet(pure.out[1]) = IdSet(pure.out[2])
    /\ ChunkDone =>
           \A x \in ChunkSet(pure.out[1]) :
               \A y \in ChunkSet(pure.out[1]) \cup ChunksOfRepo(pure.in.repo) :
                   (x.id = y.id) <=> (ChunkKey(x) = ChunkKey(y))

\* two files of one repository have been chunked twice, one of them into
\* several chunks, and a file of another length has the same path
C6_Witness ==
    /\ pure.op = "chunk" /\ Len(pure.out) = 2
    /\ Len(pure.in.docs) = 2
    /\ Len(pure.out[1]) >= 3
    /\ \E x \in ChunkSet(pure.out[1]) : \E y \in ChunksOfRepo(pure.in.repo) :
           x.path = y.path /\ x.start = y.start /\ x.end # y.end

(***************************************************************************)
(* SpecRrf: rrf applied to two ranked lists.  A ranked list holds an id at *)
(* most once: the lists rrf receives are MiniSearch's hits and the vector  *)
(* store's matches.                                                        *)
(***************************************************************************)
MaxListLen == 3

RrfIds == {"a", "b", "c", "d"}

NoDup(ids) == \A i, j \in DOMAIN ids : i # j => ids[i] # ids[j]

Ranked(ids) == [i \in DOMAIN ids |-> [id |-> ids[i], score |-> 0]]

RankedLists(S, n) ==
    { Ranked(ids) : ids \in { x \in UNION { [1..m -> S] : m \in 0..n } : NoDup(x) } }

RrfKs == {1, DefaultK}

InitRrf ==
    /\ \E a \in RankedLists(RrfIds, MaxListLen) :
       \E b \in RankedLists(RrfIds, MaxListLen) :
       \E k \in RrfKs :
           pure = [op |-> "rrf", in |-> [a |-> a, b |-> b, k |-> k], out |-> << >>]
    /\ IdleCache /\ IdleCalls /\ IdleIngest /\ IdleSearch

Rrf ==
    /\ pure.op = "rrf"
    /\ pure.out = << >>
    /\ pure' = [pure EXCEPT !.out = <<rrf(pure.in.a, pure.in.b, pure.in.k)>>]
    /\ UNCHANGED <<now, searchCache, embedCache, setLog, files, store, ing, runs, lex, last, searches, pool>>

NextRrf == Rrf

SpecRrf == InitRrf /\ [][NextRrf]_vars

RrfDone == pure.op = "rrf" /\ pure.out # << >>

\* the 1-based position of id in a list, 0 when it is not in it
PosIn(arr, id) ==
    IF \E i \in DOMAIN arr : arr[i].id = id
    THEN CHOOSE i \in DOMAIN arr : arr[i].id = id /\ \A j \in 1..(i - 1) : arr[j].id # id
    ELSE 0

FirstInBoth(a, b, id) == PosIn(a, id) = 1 /\ PosIn(b, id) = 1

FirstInOne(a, b, id) == (PosIn(a, id) = 1) # (PosIn(b, id) = 1)

ScoreIn(fused, id) == fused[PosIn(fused, id)].score

\* the calls an id of another call is compared with
RrfProbes ==
    { <<a, b>> : a \in RankedLists({"a", "b", "c"}, MaxListLen),
                 b \in RankedLists({"a", "b", "c"}, MaxListLen) }

\* C8: for k > 0 an id at position 1 of both lists scores strictly more than
\* every id that is at position 1 of only one of the two lists of a call with
\* the same k, and it is placed before every other id of its own call, each
\* of which scores strictly less.
C8_FirstInBothWins ==
    RrfDone =>
        LET a == pure.in.a
            b == pure.in.b
            k == pure.in.k
            out == pure.out[1]
        IN  \A x \in RrfIds :
                FirstInBoth(a, b, x) =>
                    /\ out[1].id = x
                    /\ \A j \in 2..Len(out) : ScoreGt(out[1].score, out[j].score)
                    /\ \A p \in RrfProbes :
                       \A y \in {"a", "b", "c"} :
                           FirstInOne(p[1], p[2], y) =>
                               ScoreGt(ScoreIn(out, x), ScoreIn(rrf(p[1], p[2], k), y))

\* an id heads both lists and each list holds further ids
C8_Witness ==
    /\ RrfDone
    /\ Len(pure.in.a) >= 2 /\ Len(pure.in.b) >= 2
    /\ pure.in.a[1].id = pure.in.b[1].id
    /\ pure.in.a[2].id # pure.in.b[2].id
    /\ Len(pure.out[1]) >= 3

\* the position of an id in the enumeration of the union: the ids of a, then
\* those of b
FirstAppearance(a, b, id) == PosIn(a \o b, id)

\* C9: rrf returns each id of the union of the two lists exactly once, with
\* score 1/(k+rankA) + 1/(k+rankB), a rank being the 1-based position in the
\* list and 999 for an id the list does not hold, ordered by non-increasing
\* score, ids of equal score in the order of first appearance in a followed
\* by b; for a = [a, b], b = [b, c], k = 60 the order is b, a, c.
C9_RrfResult ==
    RrfDone =>
        LET a == pure.in.a
            b == pure.in.b
            k == pure.in.k
            out == pure.out[1]
            union == { a[i].id : i \in DOMAIN a } \cup { b[i].id : i \in DOMAIN b }
            pos(arr, id) == IF PosIn(arr, id) = 0 THEN 999 ELSE PosIn(arr, id)
        IN  /\ Len(out) = Cardinality(union)
            /\ { out[i].id : i \in DOMAIN out } = union
            /\ \A i \in DOMAIN out :
                   LET ra == pos(a, out[i].id)
                       rb == pos(b, out[i].id)
                   IN  out[i].score.num * ((k + ra) * (k + rb))
                           = ((k + ra) + (k + rb)) * out[i].score.den
            /\ \A i, j \in DOMAIN out :
                   i < j =>
                       /\ ~ScoreGt(out[j].score, out[i].score)
                       /\ ScoreEq(out[i].score, out[j].score)
                              => FirstAppearance(a, b, out[i].id)
                                     < FirstAppearance(a, b, out[j].id)
            /\ (IdsOf(a) = <<"a", "b">> /\ IdsOf(b) = <<"b", "c">> /\ k = 60)
                   => IdsOf(out) = <<"b", "a", "c">>

\* the example of the claim has been computed
C9_Witness ==
    /\ RrfDone
    /\ IdsOf(pure.in.a) = <<"a", "b">> /\ IdsOf(pure.in.b) = <<"b", "c">>
    /\ pure.in.k = 60
    /\ IdsOf(pure.out[1]) = <<"b", "a", "c">>
    /\ ScoreGt(pure.out[1][1].score, pure.out[1][2].score)
    /\ ScoreGt(pure.out[1][2].score, pure.out[1][3].score)

(***************************************************************************)
(* SpecCache: setCache and getCache calls on one map while time passes.    *)
(***************************************************************************)
MaxNow == 4

MaxTtl == 2

CacheKeys == {"k1", "k2"}

CacheValues == {"v1", "v2"}

InitCache ==
    /\ IdlePure /\ IdleCache /\ IdleCalls /\ IdleIngest /\ IdleSearch

SetCacheCall(key, value, ttlMs) ==
    /\ searchCache' = setCache(searchCache, key, value, ttlMs, now)
    /\ setLog' = MapSet(setLog, key, [t0 |-> now, ttl |-> ttlMs, value |-> value])
    /\ last' = [op |-> "setCache", key |-> key]
    /\ UNCHANGED <<pure, now, embedCache, files, store, ing, runs, lex, searches, pool>>

GetCacheCall(key) ==
    /\ last' = [op |-> "getCache", key |-> key, at |-> now,
                result |-> getCache(searchCache, key, now)]
    /\ searchCache' = afterGetCache(searchCache, key, now)
    /\ UNCHANGED <<pure, now, embedCache, setLog, files, store, ing, runs, lex, searches, pool>>

Tick(d) ==
    /\ now + d <= MaxNow
    /\ now' = now + d
    /\ UNCHANGED <<pure, searchCache, embedCache, setLog, files, store, ing, runs, lex, last, searches, pool>>

NextCache ==
    \/ \E key \in CacheKeys : \E value \in CacheValues : \E ttlMs \in 0..MaxTtl :
          SetCacheCall(key, value, ttlMs)
    \/ \E key \in CacheKeys : GetCacheCall(key)
    \/ Tick(1)

SpecCache == InitCache /\ [][NextCache]_vars

\* C7: a value stored by setCache under key K with TTL t at time t0 is returned
\* by every getCache(K) made at a time now <= t0 + t (no setCache on K in
\* between), and getCache(K) reports absent at every time now > t0 + t.
C7_CacheTtl ==
    (last.op = "getCache" /\ last.key \in DOMAIN setLog) =>
        LET set == setLog[last.key]
        IN  IF last.at <= set.t0 + set.ttl
            THEN last.result = [hit |-> TRUE, value |-> set.value]
            ELSE last.result = Undefined

\* a getCache at exactly t0 + t, t > 0, has returned the stored value
C7_Witness ==
    /\ last.op = "getCache"
    /\ last.key \in DOMAIN setLog
    /\ setLog[last.key].ttl > 0
    /\ last.at = setLog[last.key].t0 + setLog[last.key].ttl
    /\ last.result = [hit |-> TRUE, value |-> setLog[last.key].value]

(***************************************************************************)
(* The vector store.  An index handle addresses one namespace: pc.index(n) *)
(* the default one, handle.namespace(ns) the namespace ns.  A namespace    *)
(* holds records {id, values, metadata}; upsert replaces the records whose *)
(* ids it is given.                                                        *)
(***************************************************************************)
DefaultNamespace == ""

IndexHandle == [ns |-> DefaultNamespace]

IndexNamespace(handle, ns) == [ns |-> ns]

StoreOf(st, ns) == IF ns \in DOMAIN st THEN st[ns] ELSE {}

RecIds(recs) == { recs[k].id : k \in DOMAIN recs }

\* the records of one upsert request; of two with the same id the later one
LastWins(recs) ==
    { recs[k] : k \in { k \in DOMAIN recs :
                          \A j \in (k + 1)..Len(recs) : recs[j].id # recs[k].id } }

\* a record without values is rejected, and with it the whole request
Accepts(recs) == \A k \in DOMAIN recs : recs[k].values.defined

upsertKeepingOld(st, handle, recs) ==
    MapSet(st, handle.ns, StoreOf(st, handle.ns) \cup LastWins(recs))

\* a write that replaces the content of the namespace
upsertReplacingAll(st, handle, recs) == MapSet(st, handle.ns, LastWins(recs))

upsert(st, handle, recs) ==
    MapSet(st, handle.ns,
           { r \in StoreOf(st, handle.ns) : r.id \notin RecIds(recs) }
               \cup LastWins(recs))

(***************************************************************************)
(* ingestRepo: the file source, the embedding provider, the upsert loop.   *)
(***************************************************************************)
MODEL_DIMS(model) ==
    CASE model = "text-embedding-3-large" -> 3072
      [] model = "text-embedding-3-small" -> 1536
      [] OTHER -> 0

textExts ==
    {".ts", ".tsx", ".js", ".jsx", ".mjs", ".cjs", ".py", ".java", ".go", ".rb",
     ".rs", ".php", ".cs", ".cpp", ".c", ".h", ".hpp", ".json", ".yml", ".yaml",
     ".toml", ".ini", ".md", ".txt", ".html", ".css", ".scss", ".less", ".sh",
     ".bash", ".zsh", ".env", ".sql"}

isProbablyTextPath(f) == f.ext = "" \/ f.ext \in textExts

\* the files of the glob that have a text-like path
listRepoFiles(fs) == SelectSeq(fs, isProbablyTextPath)

\* readFiles(root, files): a file of blank text is skipped
readFiles(listed) ==
    LET kept == SelectSeq(listed, LAMBDA f : ~IsBlank(f.text))
    IN  [k \in DOMAIN kept |-> [path |-> kept[k].path, text |-> kept[k].text]]

\* fetchAllFilesFromGitHub(owner, repo), as { path, text }
fetchAllFilesFromGitHub(fs) ==
    LET kept == SelectSeq(fs, isProbablyTextPath)
    IN  [k \in DOMAIN kept |-> [path |-> kept[k].path, text |-> kept[k].text]]

ToLower(s) == IF s = "R" THEN "r" ELSE s

\* the last path segment, without .git, in lower case
repoIdFromPathOrUrl(input) == ToLower(input.base)

\* const [owner, repo] = match[1].split('/') ; opts.repoName ?? repoId...
RepoOf(input) ==
    IF input.kind = "github" THEN input.name
    ELSE IF input.repoName # None THEN input.repoName
    ELSE repoIdFromPathOrUrl(input)

\* the namespace ingestRepo returns
NamespaceOf(input) ==
    IF input.kind = "github" THEN RepoOf(input)
    ELSE IF input.namespace # None THEN input.namespace
    ELSE RepoOf(input)

DocsOf(input, fs) ==
    IF input.kind = "github" THEN fetchAllFilesFromGitHub(fs)
    ELSE readFiles(listRepoFiles(fs))

\* files: docs.length of a GitHub run, files.length of a local one
FilesOf(input, fs) ==
    IF input.kind = "github" THEN Len(DocsOf(input, fs)) ELSE Len(listRepoFiles(fs))

NoVector == [defined |-> FALSE]

\* what the provider answers for one text: a vector of the model's length
Embedding(text, variant, dim) ==
    [defined |-> TRUE, of |-> text, variant |-> variant, dim |-> dim]

BatchOfRest(arr, i) == SubSeq(arr, i + 1, Len(arr))

\* records.slice(i, i + BATCH_SIZE), i counted from 0
BatchOf(arr, i) == SubSeq(arr, i + 1, Min(i + BATCH_SIZE, Len(arr)))

\* sliceRecs.map((r, j) => ({ id, values: sliceVecs[j], metadata })): the
\* records of one index.upsert call; values is undefined where sliceVecs ends
RECURSIVE Payload(_, _)
Payload(sliceRecs, sliceVecs) ==
    IF sliceRecs = << >> THEN << >>
    ELSE LET r == Head(sliceRecs) IN
         <<[id |-> r.id,
            values |-> IF sliceVecs = << >> THEN NoVector ELSE Head(sliceVecs),
            metadata |-> fitMetadata([repo |-> r.repo,
                                      path |-> r.path,
                                      start |-> r.start,
                                      end |-> r.end,
                                      tokens |-> r.tokens,
                                      model |-> MODEL,
                                      text |-> r.text], DefaultMaxBytes)]>>
         \o Payload(Tail(sliceRecs), IF sliceVecs = << >> THEN << >> ELSE Tail(sliceVecs))

(***************************************************************************)
(* hybridSearch: the lexical ranker, embedQuery, the vector-store query,   *)
(* the fusion and the result cache.                                        *)
(***************************************************************************)
\* a result cache that forgets one millisecond early
SearchTtlShort == 10000 - 1

SearchTtl == 10000

EmbedTtl == 60000

\* `${repo || '_all'}|${query}`
SearchKey(repo, query) == (IF repo # None THEN repo ELSE "_all") \o "|" \o query

\* `${model}|${query}`
EmbedKey(query) == MODEL \o "|" \o query

\* repo ? pine.index.namespace(repo) : pine.index
indexToQuery(handle, repo) ==
    IF repo # None THEN IndexNamespace(handle, repo) ELSE handle

Take(arr, n) == SubSeq(arr, 1, Min(n, Len(arr)))

\* a record that was upserted without metadata: m.metadata is undefined
NoMetadata == [absent |-> TRUE]

PathRank(path) ==
    CASE path = "a.ts" -> 1
      [] path = "b.md" -> 2
      [] OTHER -> 3

\* how close the store finds a record to the query vector: the vector of "q1"
\* is closest to the first chunks, the vector of "q2" to the last ones
Similarity(vec, r) ==
    LET key == IF r.metadata = NoMetadata THEN 0
               ELSE 4 * r.metadata.start + PathRank(r.metadata.path)
    IN  IF vec.of = "q1" THEN 0 - key ELSE key

RECURSIVE SetToSeq(_)
SetToSeq(S) ==
    IF S = {} THEN << >>
    ELSE LET x == CHOOSE x \in S : TRUE IN <<x>> \o SetToSeq(S \ {x})

\* index.query({ vector, topK, includeMetadata: true }).matches: the topK
\* records closest to the vector, the closest first
TopMatches(S, vec, topK) ==
    LET recs == SetToSeq(S)
        closest == SortSeq([k \in DOMAIN recs |->
                               [id |-> recs[k].id, score |-> Similarity(vec, recs[k]),
                                metadata |-> recs[k].metadata]],
                           LAMBDA x, y : x.score > y.score)
    IN  Take(closest, topK)

\* loadMini(repoPath): the file .bm25.jsonl is absent (readFile fails with
\* ENOENT), unreadable (readFile fails otherwise), malformed (a line that
\* JSON.parse rejects) or present; lx.mini tells whether minisearch can be
\* imported.  The call returns null, returns a MiniSearch, or throws.
loadMini(lx) ==
    IF lx.file = "absent" THEN "null"
    ELSE IF lx.file = "unreadable" THEN "throws"
    ELSE IF ~lx.mini THEN "null"
    ELSE IF lx.file = "malformed" THEN "throws"
    ELSE "mini"

\* mini.search(query, { prefix: true }).slice(0, 40).map(r => ({ id, score }))
bmOf(lx, repo, query) ==
    IF repo # None /\ loadMini(lx) = "mini"
    THEN Ranked(Take(lx.hits[query], 40))
    ELSE << >>

NoTruncation(fused) == fused

\* .slice(0, 20)
Top20(fused) == Take(fused, 20)

\* metaById[id] as .filter(Boolean) leaves it, a sequence: empty when the id
\* is not a key or its value is undefined
metaById(matches, id) ==
    LET ks == { k \in DOMAIN matches : matches[k].id = id }
        meta == matches[CHOOSE k \in ks : \A j \in ks : j <= k].metadata
    IN  IF ks = {} THEN << >>
        ELSE IF meta = NoMetadata THEN << >>
        ELSE <<meta>>

\* fused.map(f => metaById[f.id]).filter(Boolean)
RECURSIVE resultsOf(_, _)
resultsOf(fused, matches) ==
    IF fused = << >> THEN << >>
    ELSE metaById(matches, Head(fused).id) \o resultsOf(Tail(fused), matches)

(***************************************************************************)
(* Spec: ingestRepo runs on one repository snapshot, one after the other,  *)
(* each a sequence of provider and store calls that may fail.  The         *)
(* process's index handle is pc.index(name) or a handle of namespace "r".  *)
(***************************************************************************)
MaxRuns == 2

AdaDims == 1536

BigChunks == BATCH_SIZE + 1

\* the snapshots: an empty repository; a few small files (one of two chunks,
\* the first too long for the metadata budget, one blank, one empty, one
\* image); and a
\* file of BigChunks chunks
Snapshots ==
    { << >>,
      << [path |-> "a.ts", ext |-> ".ts", text |-> Run("a", 12 * CHUNK_TOKENS + 30)],
         [path |-> "b.md", ext |-> ".md", text |-> Run(" ", 2)],
         [path |-> "e.md", ext |-> ".md", text |-> EmptyText],
         [path |-> "logo.png", ext |-> ".png", text |-> Run("q", 4)] >>,
      << [path |-> "big.ts", ext |-> ".ts",
          text |-> Run("q", CHUNK_TOKENS * (BigChunks - 1) + 5)] >> }

Handles == {IndexHandle, IndexNamespace(IndexHandle, "r")}

\* ingestRepo("https://github.com/o/r.git", { pine: { index } }) and
\* ingestRepo("/w/R", { pine: { index } })
IngestInputs ==
    { [kind |-> "github", owner |-> "o", name |-> "r", handle |-> h] : h \in Handles }
    \cup
    { [kind |-> "local", base |-> "R", repoName |-> None, namespace |-> None,
       handle |-> h] : h \in Handles }

EmbeddingVariants == {"e1", "e2"}

ProviderAnswers == EmbeddingVariants \cup {"http error", "short", "bad dim"}

\* a run of ingestRepo: its position, its locals, the requests it has made,
\* the MODEL of its process and, for the claims, the store as it was when the
\* call began
IdleRun(input) ==
    [pc |-> "idle", input |-> input, repo |-> None, namespace |-> None,
     nfiles |-> 0, records |-> << >>, vectors |-> << >>, i |-> 0,
     calls |-> << >>, error |-> None, before |-> EmptyMap, model |-> MODEL]

Committed(calls) ==
    Cardinality({ k \in DOMAIN calls : calls[k].op = "upsert" /\ calls[k].ok })

\* the call throws: the run is over
Failed(run, stage, error, calls) ==
    /\ ing' = [run EXCEPT !.pc = "failed", !.error = error, !.calls = calls]
    /\ runs' = Append(runs, [ok |-> FALSE, stage |-> stage,
                             committed |-> Committed(calls)])

Init ==
    /\ IdlePure /\ IdleCache /\ IdleCalls /\ IdleSearch
    /\ files \in Snapshots
    /\ store = EmptyMap
    /\ ing \in { IdleRun(input) : input \in IngestInputs }
    /\ runs = << >>

\* ingestRepo up to its first await on the provider: the files are read and
\* chunked
StartIngest ==
    /\ ing.pc \in {"idle", "done", "failed"}
    /\ Len(runs) < MaxRuns
    /\ LET docs == DocsOf(ing.input, files)
           repo == RepoOf(ing.input)
       IN  ing' = [IdleRun(ing.input) EXCEPT
                      !.pc = "embed", !.repo = repo,
                      !.namespace = NamespaceOf(ing.input),
                      !.nfiles = FilesOf(ing.input, files),
                      !.records = chunkDocs(repo, docs),
                      !.before = store,
                      !.model = ing.model]
    /\ UNCHANGED <<pure, now, searchCache, embedCache, setLog, files, store, runs, lex, last, searches, pool>>

\* the length of the vectors the provider returns for a model: for the two
\* models of MODEL_DIMS theirs, for another model that of text-embedding-ada-002
ProviderDims(model) == IF MODEL_DIMS(model) # 0 THEN MODEL_DIMS(model) ELSE AdaDims

\* another length than the model's
OtherDims(model) ==
    IF ProviderDims(model) = MODEL_DIMS("text-embedding-3-small")
    THEN MODEL_DIMS("text-embedding-3-large")
    ELSE MODEL_DIMS("text-embedding-3-small")

ExceedsLimitFirst(batch) ==
    batch # << >> /\ TextLen(encode(batch[1].text)) > MAX_TOKENS

\* for (const s of batch) { if (encode(s).length > MAX_TOKENS) throw ... }
ExceedsLimit(batch) ==
    \E j \in DOMAIN batch : TextLen(encode(batch[j].text)) > MAX_TOKENS

\* a request that is sent again after a failure instead of ending the run
EmbedBatchRetrying(answer) ==
    /\ ing.pc = "embed"
    /\ ing.i < Len(ing.records)
    /\ answer = "http error"
    /\ LET batch == BatchOf(ing.records, ing.i)
       IN  ing' = [ing EXCEPT
                     !.calls = Append(@, [op |-> "embed", first |-> ing.i,
                                          n |-> Len(batch),
                                          sent |-> [j \in DOMAIN batch |-> batch[j].text],
                                          answered |-> FALSE, got |-> 0])]
    /\ UNCHANGED <<pure, now, searchCache, embedCache, setLog, files, store, runs, lex, last, searches, pool>>

\* one iteration of embedInBatches: the token check, then embedBatch
EmbedBatch(answer) ==
    /\ ing.pc = "embed"
    /\ ing.i < Len(ing.records)
    /\ LET batch == BatchOf(ing.records, ing.i)
           vecs == [j \in DOMAIN batch |->
                       Embedding(batch[j].text,
                                 IF answer \in EmbeddingVariants THEN answer ELSE "e1",
                                 IF answer = "bad dim" THEN OtherDims(ing.model)
                                 ELSE ProviderDims(ing.model))]
           got == IF answer = "short" THEN SubSeq(vecs, 1, Len(vecs) - 1) ELSE vecs
           call == [op |-> "embed", first |-> ing.i, n |-> Len(batch),
                    sent |-> [j \in DOMAIN batch |-> batch[j].text],
                    answered |-> answer # "http error",
                    got |-> IF answer = "http error" THEN 0 ELSE Len(got)]
       IN  IF ExceedsLimit(batch)
           THEN Failed(ing, "embed", "Chunk exceeds", ing.calls)
           ELSE IF answer = "http error"
           THEN Failed(ing, "embed", "Embedding API", Append(ing.calls, call))
           ELSE /\ ing' = [ing EXCEPT
                             !.vectors = @ \o got,
                             !.i = @ + BATCH_SIZE,
                             !.calls = Append(@, call)]
                /\ UNCHANGED runs
    /\ UNCHANGED <<pure, now, searchCache, embedCache, setLog, files, store, lex, last, searches, pool>>

DimMismatchNever(vectors, dim) == FALSE

\* vectors.some((v) => v.length !== dim)
DimMismatch(vectors, dim) == \E j \in DOMAIN vectors : vectors[j].dim # dim

\* after embedInBatches: the dimension check
CheckDims ==
    /\ ing.pc = "embed"
    /\ ~(ing.i < Len(ing.records))
    /\ LET dim == MODEL_DIMS(ing.model)
       IN  IF dim = 0
           THEN Failed(ing, "validate", "Unknown dims", ing.calls)
           ELSE IF DimMismatch(ing.vectors, dim)
           THEN Failed(ing, "validate", "Embedding dim mismatch", ing.calls)
           ELSE /\ ing' = [ing EXCEPT !.pc = "upsert", !.i = 0]
                /\ UNCHANGED runs
    /\ UNCHANGED <<pure, now, searchCache, embedCache, setLog, files, store, lex, last, searches, pool>>

\* one iteration of the upsert loop; the store may reject or fail the call
UpsertBatch(ok) ==
    /\ ing.pc = "upsert"
    /\ ing.i < Len(ing.records)
    /\ \E recs \in {Payload(BatchOf(ing.records, ing.i), BatchOf(ing.vectors, ing.i))} :
       LET call == [op |-> "upsert", ns |-> ing.input.handle.ns, first |-> ing.i,
                    n |-> Len(recs), ok |-> ok /\ Accepts(recs)]
       IN  IF call.ok
           THEN /\ store' = upsert(store, ing.input.handle, recs)
                /\ ing' = [ing EXCEPT !.i = @ + BATCH_SIZE, !.calls = Append(@, call)]
                /\ UNCHANGED runs
           ELSE /\ Failed(ing, "upsert", "upsert failed", Append(ing.calls, call))
                /\ UNCHANGED store
    /\ UNCHANGED <<pure, now, searchCache, embedCache, setLog, files, lex, last, searches, pool>>

\* return { repo, namespace, files, chunks, model }
FinishIngest ==
    /\ ing.pc = "upsert"
    /\ ~(ing.i < Len(ing.records))
    /\ ing' = [ing EXCEPT !.pc = "done"]
    /\ runs' = Append(runs, [ok |-> TRUE, stage |-> "done",
                             committed |-> Committed(ing.calls)])
    /\ UNCHANGED <<pure, now, searchCache, embedCache, setLog, files, store, lex, last, searches, pool>>

Next ==
    \/ StartIngest
    \/ \E answer \in ProviderAnswers : EmbedBatch(answer)
    \/ CheckDims
    \/ \E ok \in BOOLEAN : UpsertBatch(ok)
    \/ FinishIngest

Spec == Init /\ [][Next]_vars

\* the records ingestRepo sends for a list of chunks and their vectors
AllPayload(records, vectors) == LastWins(Payload(records, vectors))

WholeStore == UNION { store[ns] : ns \in DOMAIN store }

\* C1: when a run on the snapshot has ended successfully, whatever runs came
\* before it (successful, or failed before or between their upsert batches),
\* the vector store holds exactly the records that run sent, which are the
\* records of the snapshot's chunks: one record per chunk id, with the fitted
\* metadata of the chunk and an embedding of its text, and nothing else.
C1_Idempotent ==
    ing.pc = "done" =>
        LET chunks == chunkDocs(RepoOf(ing.input), DocsOf(ing.input, files))
            held == StoreOf(store, ing.input.handle.ns)
        IN  /\ held = AllPayload(ing.records, ing.vectors)
            /\ WholeStore = held
            /\ Cardinality(held) = Len(chunks)
            /\ { r.id : r \in held } = IdSet(chunks)
            /\ \A r \in held : \A q \in held : r.id = q.id => r = q
            /\ \A r \in held : r.values.defined /\ r.values.dim = MODEL_DIMS(MODEL)

\* a run that failed after its first upsert batch is followed by a successful
\* run on a snapshot of more than one batch
C1_Witness ==
    /\ ing.pc = "done"
    /\ Len(ing.records) > BATCH_SIZE
    /\ \E k \in 1..(Len(runs) - 1) :
          ~runs[k].ok /\ runs[k].stage = "upsert" /\ runs[k].committed > 0
    /\ runs[Len(runs)].ok

\* C2: every upsert request of an ingestRepo run for repository R goes to the
\* namespace that hybridSearch queries for repo = R, so that after a successful
\* run that namespace holds the records the run sent.
C2_UpsertNamespace ==
    LET queried == indexToQuery(ing.input.handle, ing.repo).ns
    IN  /\ \A k \in DOMAIN ing.calls :
              ing.calls[k].op = "upsert" => ing.calls[k].ns = queried
        /\ ing.pc = "done" =>
              AllPayload(ing.records, ing.vectors) \subseteq StoreOf(store, queried)

(***************************************************************************)
(* SpecSearch: hybridSearch calls, each made at some time not before the   *)
(* last one, on a store that ingestRepo fills.  ingestRepo is taken as one *)
(* step, the run in which no call fails.                                   *)
(***************************************************************************)
MaxSearches == 2

MaxSearchesBeforeIngest == 1

\* the times at which a call is made: the start, the result-cache deadline
\* of a call made at the start, and one tick later
Instants == {0, SearchTtl, SearchTtl + 1}

Queries == {"q1", "q2"}

Reverse(arr) == [k \in 1..Len(arr) |-> arr[Len(arr) + 1 - k]]

\* the lexical side: no .bm25.jsonl, or one whose documents are the chunks of
\* the snapshot and one chunk of a file that is gone; "q1" matches it and the
\* chunks from the last to the first, "q2" matches nothing
LexStates(fs) ==
    { [file |-> "absent", mini |-> TRUE, hits |-> [q \in Queries |-> << >>]],
      [file |-> "present", mini |-> TRUE,
       hits |-> [q \in Queries |->
                   IF q = "q1"
                   THEN <<"r:gone.ts:0-7">>
                        \o Reverse(IdsOf(chunkDocs("r", fetchAllFilesFromGitHub(fs))))
                   ELSE << >>]] }

NoSearch == [op |-> None, n |-> 0]

InitSearch ==
    /\ IdlePure /\ IdleCache /\ IdleCalls
    /\ files \in Snapshots \ {<< >>}
    /\ store = EmptyMap
    /\ ing \in { IdleRun(input) : input \in { x \in IngestInputs : x.kind = "github" } }
    /\ runs = << >>
    /\ lex \in LexStates(files)
    /\ last = NoSearch

\* a whole ingestRepo call in which the provider and the store answer every
\* request; what is left of it is what it returns.  It runs before the
\* searches or between them, so that a result cached before it can be served
\* after it.
IngestAll ==
    /\ Len(runs) < 1
    /\ last.n <= MaxSearchesBeforeIngest
    /\ \E records \in {chunkDocs(RepoOf(ing.input), DocsOf(ing.input, files))} :
       \E vectors \in {[k \in DOMAIN records |->
                          Embedding(records[k].text, "e1", MODEL_DIMS(MODEL))]} :
          /\ store' = upsert(store, ing.input.handle, Payload(records, vectors))
          /\ ing' = [IdleRun(ing.input) EXCEPT
                        !.pc = "done", !.repo = RepoOf(ing.input),
                        !.namespace = NamespaceOf(ing.input),
                        !.nfiles = FilesOf(ing.input, files), !.i = Len(records)]
          /\ runs' = Append(runs, [ok |-> TRUE, stage |-> "done",
                                   committed |-> (Len(records) + BATCH_SIZE - 1)
                                                     \div BATCH_SIZE])
    /\ UNCHANGED <<pure, now, searchCache, embedCache, setLog, files, lex, last, searches, pool>>

\* const knn = matches.map(m => ({ id: m.id, score: m.score || 0 }))
knnOf(matches) ==
    [k \in DOMAIN matches |-> [id |-> matches[k].id, score |-> matches[k].score]]

\* what a hybridSearch call that misses the result cache computes
Retrieval(handle, repo, query, vec) ==
    CHOOSE r \in
      { CHOOSE fromFused \in
          { [bm |-> bm, matches |-> matches, fused |-> fused,
             results |-> resultsOf(fused, matches)]
            : fused \in {Top20(rrf(bm, knnOf(matches), DefaultK))} } : TRUE
        : bm \in {bmOf(lex, repo, query)},
          matches \in {TopMatches(StoreOf(store, indexToQuery(handle, repo).ns), vec,
                                  IF repo # None THEN 40 ELSE 80)} } : TRUE

NoRetrieval == [bm |-> << >>, matches |-> << >>, fused |-> << >>, results |-> << >>]

SearchCall(repo, query, t, cached, did, r) ==
    [op |-> "hybridSearch", n |-> last.n + 1, repo |-> repo, query |-> query,
     at |-> t, cached |-> cached, error |-> None, did |-> did,
     bm |-> r.bm, matches |-> r.matches, fused |-> r.fused, results |-> r.results]

\* a call that throws returns nothing
FailedCall(repo, query, t, did, error) ==
    [op |-> "hybridSearch", n |-> last.n + 1, repo |-> repo, query |-> query,
     at |-> t, cached |-> FALSE, error |-> error, did |-> did]

\* if (repo) { const mini = await loadMini(repoPath) ... }
LexicalThrows(repo) == repo # None /\ loadMini(lex) = "throws"

\* the requests to the provider and the store that a hybridSearch call at
\* time t makes
Requests(repo, query, t) ==
    IF getCache(searchCache, SearchKey(repo, query), t).hit THEN {}
    ELSE IF LexicalThrows(repo) THEN {}
    ELSE IF getCache(embedCache, EmbedKey(query), t).hit THEN {"query"}
    ELSE {"embed", "query"}

\* a failure that is caught and cached as an empty result
AfterFailureCachingEmpty(smap, skey, t) == setCache(smap, skey, << >>, SearchTtl, t)

\* the result cache after await embedQuery(...) or await indexToQuery.query(...)
\* has thrown: the setCache at the end of the function is not reached
AfterFailure(smap, skey, t) == smap

\* hybridSearch({ pine, repo, query }) at time t: the call it makes, and the
\* caches after it.  fault is the request that fails: the embedding request
\* ("embed"), the vector-store query ("query"), or none.
hybridSearch(handle, repo, query, fault, t) ==
    LET skey == SearchKey(repo, query)
        ekey == EmbedKey(query)
        cached == getCache(searchCache, skey, t)
        smap == afterGetCache(searchCache, skey, t)
        ecached == getCache(embedCache, ekey, t)
        emap == afterGetCache(embedCache, ekey, t)
        vec == IF ecached.hit THEN ecached.value
               ELSE Embedding(query, "e1", MODEL_DIMS(MODEL))
        emap2 == IF ecached.hit THEN emap ELSE setCache(emap, ekey, vec, EmbedTtl, t)
        read == IF repo # None THEN {"lexical"} ELSE {}
        embedded == IF ecached.hit THEN read ELSE read \cup {"embed"}
    IN  IF cached.hit
        THEN [call |-> SearchCall(repo, query, t, TRUE, {},
                                  [NoRetrieval EXCEPT !.results = cached.value]),
              searchCache |-> searchCache, embedCache |-> embedCache, setLog |-> setLog]
        ELSE IF LexicalThrows(repo)
        THEN [call |-> FailedCall(repo, query, t, read, "lexical index failed"),
              searchCache |-> smap, embedCache |-> embedCache, setLog |-> setLog]
        ELSE IF ~ecached.hit /\ fault = "embed"
        THEN [call |-> FailedCall(repo, query, t, embedded, "embedding failed"),
              searchCache |-> AfterFailure(smap, skey, t), embedCache |-> emap,
              setLog |-> setLog]
        ELSE IF fault = "query"
        THEN [call |-> FailedCall(repo, query, t, embedded \cup {"query"}, "query failed"),
              searchCache |-> AfterFailure(smap, skey, t), embedCache |-> emap2,
              setLog |-> setLog]
        ELSE CHOOSE out \in
               { [call |-> SearchCall(repo, query, t, FALSE, embedded \cup {"query"}, r),
                  searchCache |-> setCache(smap, skey, r.results, SearchTtl, t),
                  embedCache |-> emap2,
                  setLog |-> MapSet(setLog, skey,
                                    [t0 |-> t, ttl |-> SearchTtl, value |-> r.results])]
                 : r \in {Retrieval(handle, repo, query, vec)} } : TRUE

\* a hybridSearch call made at time t, with the handle the ingestion uses
HybridSearch(t, repo, query, fault) ==
    /\ last.n < MaxSearches
    /\ t >= now
    /\ fault \in Requests(repo, query, t) \cup {"none"}
    /\ now' = t
    /\ \E out \in {hybridSearch(ing.input.handle, repo, query, fault, t)} :
          /\ last' = out.call
          /\ searchCache' = out.searchCache
          /\ embedCache' = out.embedCache
          /\ setLog' = out.setLog
    /\ UNCHANGED <<pure, files, store, ing, runs, lex, searches, pool>>

NextSearch ==
    \/ IngestAll
    \/ \E t \in Instants : \E repo \in {None, "r"} : \E query \in Queries :
       \E fault \in {"none", "embed", "query"} :
          HybridSearch(t, repo, query, fault)

SpecSearch == InitSearch /\ [][NextSearch]_vars

MatchIds(matches) == { matches[k].id : k \in DOMAIN matches }

\* the fused entries whose id the vector store returned
Resolved(fused, matches) ==
    SelectSeq(fused, LAMBDA f : f.id \in MatchIds(matches))

\* C10: a hybridSearch call that returns, returns at most 20 items.  When it
\* queried the vector store, its items are, in the fused order, the metadata
\* of the matches of its own response whose ids are among the 20 first fused:
\* a fused id the response does not hold (one only the lexical ranker gave)
\* yields no item.  When it was served from the result cache, it returns the
\* list that the call which queried the vector store for this repo and query
\* stored.
C10_ResultFromResponse ==
    (last.op = "hybridSearch" /\ last.error = None) =>
        /\ Len(last.results) <= 20
        /\ IF last.cached
           THEN LET skey == SearchKey(last.repo, last.query)
                IN  skey \in DOMAIN setLog /\ last.results = setLog[skey].value
           ELSE LET kept == Resolved(last.fused, last.matches)
                IN  /\ Len(last.fused) <= 20
                    /\ Len(last.results) = Len(kept)
                    /\ \A i \in DOMAIN last.results :
                          \E k \in DOMAIN last.matches :
                             /\ last.matches[k].id = kept[i].id
                             /\ last.results[i] = last.matches[k].metadata

\* a call for a repository whose 40 matches and lexical hits fuse to more
\* than 20 ids, with an id of the lexical ranker alone among the first 20
C10_Witness ==
    /\ last.op = "hybridSearch" /\ last.error = None /\ ~last.cached
    /\ Len(last.matches) = 40
    /\ Cardinality(MatchIds(last.matches) \cup { last.bm[k].id : k \in DOMAIN last.bm }) > 20
    /\ Len(last.fused) = 20
    /\ \E i \in DOMAIN last.fused :
          /\ last.fused[i].id \notin MatchIds(last.matches)
          /\ \E k \in DOMAIN last.bm : last.bm[k].id = last.fused[i].id
    /\ Len(last.results) > 0
    /\ Len(last.results) < Len(last.fused)

(***************************************************************************)
(* SpecLex: the calls of SpecSearch with every state of the lexical side:  *)
(* the index file absent, unreadable, malformed or present, minisearch     *)
(* importable or not.  The index handle addresses namespace "r", which     *)
(* holds a record without metadata from the start.                         *)
(***************************************************************************)
AllLexStates(fs) ==
    { [x EXCEPT !.mini = m] : x \in LexStates(fs), m \in BOOLEAN }
    \cup
    { [file |-> f, mini |-> m, hits |-> [q \in Queries |-> << >>]] :
        f \in {"unreadable", "malformed"}, m \in BOOLEAN }

\* a record of namespace "r" that another writer upserted without metadata
ForeignRecord ==
    [id |-> "r:old.ts:0-3", values |-> Embedding(<< >>, "e1", MODEL_DIMS(MODEL)),
     metadata |-> NoMetadata]

\* a snapshot of 22 chunks, more than a call returns
ManyChunks ==
    { << [path |-> "mid.ts", ext |-> ".ts",
          text |-> Run("q", CHUNK_TOKENS * 21 + 5)] >> }

InitLex ==
    /\ IdlePure /\ IdleCache /\ IdleCalls
    /\ files \in ManyChunks
    /\ store = MapSet(EmptyMap, "r", {ForeignRecord})
    /\ ing = IdleRun([kind |-> "github", owner |-> "o", name |-> "r",
                      handle |-> IndexNamespace(IndexHandle, "r")])
    /\ runs = << >>
    /\ lex \in AllLexStates(files)
    /\ last = NoSearch

SpecLex == InitLex /\ [][NextSearch]_vars

\* the lexical path of the last call did not produce a ranker: the file is
\* not there or not usable, or minisearch is not
LexicalFailure ==
    /\ last.op = "hybridSearch" /\ ~last.cached
    /\ last.repo # None
    /\ loadMini(lex) # "mini"

LexicalNullDegrades ==
    (LexicalFailure /\ loadMini(lex) = "null") =>
        /\ last.error # "lexical index failed"
        /\ last.error = None => (last.bm = << >> /\ "query" \in last.did)

\* the metadata of matches, in their order, without the undefined ones
RECURSIVE MetadataOf(_)
MetadataOf(matches) ==
    IF matches = << >> THEN << >>
    ELSE (IF Head(matches).metadata = NoMetadata THEN << >>
          ELSE <<Head(matches).metadata>>) \o MetadataOf(Tail(matches))

\* C12: in a hybridSearch call that queries the vector store, the lexical
\* ranking is empty when no repository is given or loadMini returns null
\* (file absent, minisearch not loadable); and whenever it is empty the call
\* returns the metadata of the first 20 matches of the response, in the order
\* of the response, leaving out the matches that have none.
C12_VectorOnly ==
    (last.op = "hybridSearch" /\ ~last.cached /\ last.error = None) =>
        /\ (last.repo = None \/ loadMini(lex) = "null") => last.bm = << >>
        /\ last.bm = << >> => last.results = MetadataOf(Take(last.matches, 20))

\* a call for a repository whose index file is there while minisearch is not:
\* more than 20 matches, one of the first 20 without metadata
C12_Witness ==
    /\ last.op = "hybridSearch" /\ ~last.cached /\ last.error = None
    /\ last.repo # None /\ lex.file = "present" /\ ~lex.mini
    /\ Len(last.matches) > 20
    /\ \E k \in 1..20 : last.matches[k].metadata = NoMetadata
    /\ Len(last.results) = 19

(***************************************************************************)
(* Claims on the calls of one ingestRepo run (Spec).                       *)
(***************************************************************************)
\* the upsert requests of the run, in the order they were issued
UpsertCalls == SelectSeq(ing.calls, LAMBDA c : c.op = "upsert")

\* the records of the request that starts at chunk first
SentAt(first) == Payload(BatchOf(ing.records, first), BatchOf(ing.vectors, first))

\* C13: the j-th upsert request of a run carries the chunks from
\* (j-1)*BATCH_SIZE on, at most BATCH_SIZE of them and all that are left when
\* fewer; a request that fails is the last request of the run, the run has
\* then failed with that error, and the store still holds the records of the
\* requests before it.
C13_UpsertBatches ==
    /\ \A j \in DOMAIN UpsertCalls :
          /\ UpsertCalls[j].first = (j - 1) * BATCH_SIZE
          /\ UpsertCalls[j].n <= BATCH_SIZE
          /\ UpsertCalls[j].n = Min(BATCH_SIZE, Len(ing.records) - UpsertCalls[j].first)
          /\ UpsertCalls[j].n > 0
    /\ \A k \in DOMAIN ing.calls :
          (ing.calls[k].op = "upsert" /\ ~ing.calls[k].ok) =>
              /\ k = Len(ing.calls)
              /\ ing.pc = "failed"
              /\ ing.error = "upsert failed"
              /\ runs[Len(runs)].stage = "upsert"
              /\ \A j \in 1..(Len(UpsertCalls) - 1) :
                    \A r \in LastWins(SentAt(UpsertCalls[j].first)) :
                       r \in StoreOf(store, ing.input.handle.ns)

\* the second upsert request of a run fails after the first was applied
C13_Witness ==
    /\ ing.pc = "failed"
    /\ Len(UpsertCalls) = 2
    /\ UpsertCalls[1].ok /\ UpsertCalls[1].n = BATCH_SIZE
    /\ ~UpsertCalls[2].ok /\ UpsertCalls[2].n = 1
    /\ Cardinality(StoreOf(store, ing.input.handle.ns)) = BATCH_SIZE

\* an embedding request that the provider answered with a number of vectors
\* other than the number of texts sent
CountMismatch(c) == c.op = "embed" /\ c.answered /\ c.got # c.n

\* C14: in a run in which the provider answered a batch with a wrong number
\* of vectors no upsert request is applied, and the run does not end
\* successfully.
C14_CountMismatchFails ==
    (\E k \in DOMAIN ing.calls : CountMismatch(ing.calls[k])) =>
        /\ \A j \in DOMAIN UpsertCalls : ~UpsertCalls[j].ok
        /\ ing.pc # "done"

(***************************************************************************)
(* SpecEmbed: embedInBatches on lists of texts of which one may be longer  *)
(* than MAX_TOKENS tokens, followed by the dimension check of its caller.  *)
(***************************************************************************)
MaxBatches == 2

\* a text of one token more than MAX_TOKENS, and one of exactly MAX_TOKENS
TooLong == Run("a", TokenWidth("a") * MAX_TOKENS + 1)

AtLimit == Run("a", TokenWidth("a") * MAX_TOKENS)

\* n texts, the p-th too long (none when p = 0), the second at the limit
Inputs(n, p) ==
    [k \in 1..n |-> [text |-> IF k = p THEN TooLong
                              ELSE IF k = 2 THEN AtLimit
                              ELSE Run("a", k)]]

EmbedInputs ==
    { Inputs(n, p) :
        n \in {0, 1} \cup { b * BATCH_SIZE : b \in 1..MaxBatches }
                  \cup { (b - 1) * BATCH_SIZE + 2 : b \in 1..MaxBatches },
        p \in {0, 1, BATCH_SIZE, BATCH_SIZE + 1, BATCH_SIZE + 2} }

InitEmbed ==
    /\ IdlePure /\ IdleCache /\ IdleCalls /\ IdleSearch
    /\ files = << >>
    /\ store = EmptyMap
    /\ runs = << >>
    /\ ing \in { [IdleRun([kind |-> "github", owner |-> "o", name |-> "r",
                           handle |-> IndexHandle])
                    EXCEPT !.pc = "embed", !.repo = "r", !.namespace = "r",
                           !.records = inputs] : inputs \in EmbedInputs }

NextEmbed ==
    \/ \E answer \in ProviderAnswers : EmbedBatch(answer)
    \/ CheckDims

SpecEmbed == InitEmbed /\ [][NextEmbed]_vars

Tokens(text) == TextLen(encode(text))

EmbedCalls == SelectSeq(ing.calls, LAMBDA c : c.op = "embed")

\* the texts of the embedding requests of the run, in the order sent
RECURSIVE SentTexts(_)
SentTexts(calls) ==
    IF calls = << >> THEN << >> ELSE Head(calls).sent \o SentTexts(Tail(calls))

\* embedInBatches has returned to ingestRepo
Returned ==
    \/ ing.pc = "upsert"
    \/ ing.pc = "failed" /\ runs[Len(runs)].stage = "validate"

\* C15: no embedding request carries a text of more than MAX_TOKENS tokens;
\* embedInBatches fails with "Chunk exceeds" exactly at a batch that holds
\* such a text, after the requests of the batches before it and without a
\* request for that batch; and when it returns, the texts of its requests
\* are its inputs, each once, in order and unchanged.
C15_TokenCeiling ==
    /\ \A k \in DOMAIN EmbedCalls :
          /\ EmbedCalls[k].first = (k - 1) * BATCH_SIZE
          /\ \A j \in DOMAIN EmbedCalls[k].sent :
                Tokens(EmbedCalls[k].sent[j]) <= MAX_TOKENS
    /\ (ing.pc = "failed" /\ ing.error = "Chunk exceeds") =>
          /\ \E j \in DOMAIN BatchOf(ing.records, ing.i) :
                Tokens(BatchOf(ing.records, ing.i)[j].text) > MAX_TOKENS
          /\ Len(EmbedCalls) * BATCH_SIZE = ing.i
    /\ Returned =>
          /\ \A k \in DOMAIN ing.records : Tokens(ing.records[k].text) <= MAX_TOKENS
          /\ SentTexts(EmbedCalls) = [k \in DOMAIN ing.records |-> ing.records[k].text]

\* the second batch holds a text that is too long, not as its first: the
\* first batch was sent, with a text at the limit, the second was not
C15_Witness ==
    /\ ing.pc = "failed" /\ ing.error = "Chunk exceeds"
    /\ ing.i = BATCH_SIZE
    /\ Len(EmbedCalls) = 1
    /\ Tokens(ing.records[BATCH_SIZE + 1].text) <= MAX_TOKENS
    /\ \E j \in DOMAIN EmbedCalls[1].sent : Tokens(EmbedCalls[1].sent[j]) = MAX_TOKENS

(***************************************************************************)
(* hybridSearch calls that overlap.  A call is suspended at its awaits:    *)
(* between its result-cache check and its vector-store query, and between  *)
(* the store's answer and the setCache that ends it, other calls and an    *)
(* ingestion run.  searches holds every call of the behaviour, in the     *)
(* order the calls began, with its position.                               *)
(***************************************************************************)
MaxCalls == 3

TenSeconds == 10000

OverlapSnapshot ==
    << [path |-> "a.ts", ext |-> ".ts", text |-> Run("a", 2 * CHUNK_TOKENS + 30)] >>

InitOverlap ==
    /\ IdlePure /\ IdleCache
    /\ files = OverlapSnapshot
    /\ store = EmptyMap
    /\ ing = IdleRun([kind |-> "github", owner |-> "o", name |-> "r",
                      handle |-> IndexNamespace(IndexHandle, "r")])
    /\ runs = << >>
    /\ lex \in { l \in LexStates(files) : l.file = "present" }
    /\ last = NoSearch
    /\ searches = << >>
    /\ pool = [pc |-> "idle"]

\* the events so far: a call that began, a call that returned
Stamp == Len(searches) + Cardinality({ k \in DOMAIN searches : searches[k].pc = "returned" })

\* const cached = getCache(searchCache, skey); if (cached) return cached;
\* otherwise the lexical search and embedQuery, up to the await of the query
BeginSearch(t, repo, query) ==
    /\ Len(searches) < MaxCalls
    /\ t >= now
    /\ now' = t
    /\ \E out \in {hybridSearch(ing.input.handle, repo, query, "query", t)} :
          /\ searchCache' = out.searchCache
          /\ embedCache' = out.embedCache
          /\ searches' = Append(searches,
                [repo |-> repo, query |-> query, b |-> Stamp + 1, start |-> t,
                 pc |-> IF out.call.cached THEN "returned" ELSE "query",
                 e |-> IF out.call.cached THEN Stamp + 2 ELSE 0,
                 end |-> IF out.call.cached THEN t ELSE 0,
                 cached |-> out.call.cached,
                 did |-> out.call.did \ {"query"},
                 results |-> IF out.call.cached THEN out.call.results ELSE << >>])
          /\ last' = IF out.call.cached THEN out.call ELSE last
    /\ UNCHANGED <<pure, setLog, files, store, ing, runs, lex, pool>>

\* const res = await indexToQuery.query({ vector: vec, topK, ... }): the
\* store answers from the records it holds now
Respond(c) ==
    /\ c \in DOMAIN searches
    /\ searches[c].pc = "query"
    /\ \E r \in {Retrieval(ing.input.handle, searches[c].repo, searches[c].query,
                           Embedding(searches[c].query, "e1", MODEL_DIMS(MODEL)))} :
          searches' = [searches EXCEPT ![c].pc = "respond", ![c].did = @ \cup {"query"},
                                 ![c].results = r.results]
    /\ UNCHANGED <<pure, now, searchCache, embedCache, setLog, files, store, ing, runs,
                   lex, last, pool>>

\* setCache(searchCache, skey, results, 10_000); return results
EndSearch(t, c) ==
    /\ c \in DOMAIN searches
    /\ searches[c].pc = "respond"
    /\ t >= now
    /\ now' = t
    /\ \E skey \in {SearchKey(searches[c].repo, searches[c].query)} :
          /\ searchCache' = setCache(searchCache, skey, searches[c].results, SearchTtl, t)
          /\ setLog' = MapSet(setLog, skey,
                              [t0 |-> t, ttl |-> SearchTtl, value |-> searches[c].results])
    /\ searches' = [searches EXCEPT ![c].pc = "returned", ![c].e = Stamp + 1, ![c].end = t]
    /\ last' = SearchCall(searches[c].repo, searches[c].query, searches[c].start, FALSE,
                          searches[c].did,
                          [NoRetrieval EXCEPT !.results = searches[c].results])
    /\ UNCHANGED <<pure, embedCache, files, store, ing, runs, lex, pool>>

NextOverlap ==
    \/ IngestAll
    \/ \E t \in Instants : BeginSearch(t, "r", "q1")
    \/ \E c \in 1..MaxCalls : Respond(c)
    \/ \E t \in Instants : \E c \in 1..MaxCalls : EndSearch(t, c)

SpecOverlap == InitOverlap /\ [][NextOverlap]_vars

SameKey(x, y) == searches[x].repo = searches[y].repo /\ searches[x].query = searches[y].query

\* the calls with the key of call y that computed a list and stored it before
\* call y began
StoredBefore(y) ==
    { x \in DOMAIN searches : /\ searches[x].pc = "returned" /\ ~searches[x].cached
                           /\ SameKey(x, y) /\ searches[x].e < searches[y].b }

LatestStored(y) ==
    CHOOSE x \in StoredBefore(y) : \A z \in StoredBefore(y) : searches[z].e <= searches[x].e

\* C16 (as amended): a call that begins while a list is stored under its key,
\* at most 10 s after the call that stored it last returned, reads no lexical
\* index, embeds nothing, queries nothing and returns that list; every other
\* call computes its list with a vector query.
C16_CacheWindow ==
    \A y \in DOMAIN searches :
        IF StoredBefore(y) # {}
           /\ searches[y].start <= searches[LatestStored(y)].end + TenSeconds
        THEN /\ searches[y].cached
             /\ searches[y].did = {}
             /\ searches[y].results = searches[LatestStored(y)].results
        ELSE /\ ~searches[y].cached
             /\ searches[y].pc # "query" => "query" \in searches[y].did

\* C16 (witness): at exactly 10 s after a call returned the empty list of a
\* store that an ingestion has filled since, a call is served that list.
C16_Witness ==
    \E y \in DOMAIN searches :
        /\ searches[y].cached
        /\ searches[y].repo = "r"
        /\ searches[y].start = searches[LatestStored(y)].end + TenSeconds
        /\ searches[y].results = << >>
        /\ StoreOf(store, "r") # {}

\* C16 (as stated): after a call has computed its list and returned at t0,
\* every call with its repo and query that begins by t0 + 10 s makes no
\* request and returns the list that call returned.
C16_SameListWithinTtl ==
    \A x \in DOMAIN searches : \A y \in DOMAIN searches :
        ( /\ searches[x].pc = "returned" /\ ~searches[x].cached
          /\ SameKey(x, y)
          /\ searches[y].b > searches[x].e
          /\ searches[y].start <= searches[x].end + TenSeconds )
        => /\ searches[y].cached
           /\ searches[y].did = {}
           /\ searches[y].results = searches[x].results

(***************************************************************************)
(* findProjectsBySkill.  A string that the code takes apart (a skill, a    *)
(* tag, a legacy tag list) is the sequence of its characters; a score of   *)
(* the result is counted in halves of the store's score, so that the boost *)
(* of 1.5 stays an integer.                                                *)
(***************************************************************************)
Lower(c) ==
    CASE c = "R" -> "r"
      [] c = "S" -> "s"
      [] OTHER -> c

toLowerCase(str) == [i \in DOMAIN str |-> Lower(str[i])]

\* String.prototype.includes
includes(str, sub) ==
    \E i \in 0..(Len(str) - Len(sub)) : SubSeq(str, i + 1, i + Len(sub)) = sub

\* String.prototype.split(",")
RECURSIVE split(_)
split(str) ==
    IF \E i \in DOMAIN str : str[i] = ","
    THEN LET i == CHOOSE i \in DOMAIN str :
                     str[i] = "," /\ \A j \in 1..(i - 1) : str[j] # ","
         IN  <<SubSeq(str, 1, i - 1)>> \o split(SubSeq(str, i + 1, Len(str)))
    ELSE <<str>>

\* String.prototype.trim
RECURSIVE trim(_)
trim(str) ==
    IF str = << >> THEN str
    ELSE IF Head(str) = " " THEN trim(Tail(str))
    ELSE IF str[Len(str)] = " " THEN trim(SubSeq(str, 1, Len(str) - 1))
    ELSE str

\* the string a sequence of characters stands for
RECURSIVE Str(_)
Str(chars) == IF chars = << >> THEN "" ELSE Head(chars) \o Str(Tail(chars))

\* Array.isArray(meta.techStack) ? meta.techStack
\*   : ((meta.techStack as string) || "").split(",").map(s => s.trim()).filter(Boolean)
techStackArr(meta) ==
    IF meta.techStack.kind = "array" THEN meta.techStack.tags
    ELSE LET parts == split(IF meta.techStack.kind = "string"
                            THEN meta.techStack.text ELSE << >>)
         IN  SelectSeq([k \in DOMAIN parts |-> trim(parts[k])], LAMBDA part : part # << >>)

hasSkill(arr, skill) ==
    \E k \in DOMAIN arr :
        \/ includes(toLowerCase(arr[k]), toLowerCase(skill))
        \/ includes(toLowerCase(skill), toLowerCase(arr[k]))

\* (match.score || 0) * scoreBoost, in halves
adjustedScore(match, skill) ==
    match.score * (IF hasSkill(techStackArr(match.metadata), skill) THEN 3 ELSE 2)

\* existing.score = Math.max(existing.score, adjustedScore), were it to keep
\* the score of the first match
KeepExisting(a, b) == a

MathMax(a, b) == IF b > a THEN b ELSE a

\* Set.prototype.add for each element of arr, in order
RECURSIVE AddAll(_, _)
AddAll(set, arr) ==
    IF arr = << >> THEN set
    ELSE AddAll(IF \E k \in DOMAIN set : set[k] = Head(arr)
                THEN set ELSE Append(set, Head(arr)),
                Tail(arr))

\* if (!meta?.repo) continue
HasRepo(match) == match.metadata # NoMetadata /\ match.metadata.repo # None

\* the loop over pineResults.matches: repoMap as the sequence of its entries
\* in insertion order
RECURSIVE GroupByRepo(_, _, _)
GroupByRepo(matches, skill, repoMap) ==
    IF matches = << >> THEN repoMap
    ELSE LET match == Head(matches) IN
         IF ~HasRepo(match) THEN GroupByRepo(Tail(matches), skill, repoMap)
         ELSE LET meta == match.metadata
                  arr == techStackArr(meta)
                  adjusted == adjustedScore(match, skill)
                  paths == IF meta.path # None THEN <<meta.path>> ELSE << >>
                  at == { k \in DOMAIN repoMap : repoMap[k].repo = meta.repo }
              IN  GroupByRepo(Tail(matches), skill,
                    IF at # {}
                    THEN [k \in DOMAIN repoMap |->
                            IF k \in at
                            THEN [repo |-> meta.repo,
                                  score |-> MathMax(repoMap[k].score, adjusted),
                                  techStack |-> AddAll(repoMap[k].techStack, arr),
                                  paths |-> AddAll(repoMap[k].paths, paths),
                                  matchCount |-> repoMap[k].matchCount + 1]
                            ELSE repoMap[k]]
                    ELSE Append(repoMap,
                                [repo |-> meta.repo, score |-> adjusted,
                                 techStack |-> AddAll(<< >>, arr),
                                 paths |-> paths, matchCount |-> 1]))

\* .sort((a, b) => b.score - a.score), which is stable
ProjectBefore(x, y) == x.score > y.score \/ (x.score = y.score /\ x.at < y.at)

\* Array.from(repoMap.entries()).map(...).sort(...).slice(0, limit)
ProjectMatches(repoMap, limit) ==
    LET sorted == SortSeq([i \in DOMAIN repoMap |->
                             [repo |-> repoMap[i].repo,
                              techStack |-> repoMap[i].techStack,
                              score |-> repoMap[i].score,
                              samplePaths |-> Take(repoMap[i].paths, 5),
                              at |-> i]],
                          ProjectBefore)
    IN  Take([p \in DOMAIN sorted |->
                [repo |-> sorted[p].repo, techStack |-> sorted[p].techStack,
                 score |-> sorted[p].score, samplePaths |-> sorted[p].samplePaths]],
             limit)

\* { ..., limit = 20 }: the limit of a call is << >> when it is not given
DefaultLimit == 20

LimitOf(limit) == IF limit = << >> THEN DefaultLimit ELSE limit[1]

SkillTtl == 30000

\* `skill:${skill}`
SkillKey(skill) == "skill:" \o Str(skill)

\* pine.index.query({ vector: vec, topK: 100, includeMetadata: true }).matches
SkillMatches(handle, skill) ==
    TopMatches(StoreOf(store, handle.ns),
               Embedding(Str(skill), "e1", MODEL_DIMS(MODEL)), 100)

\* findProjectsBySkill({ pine, skill, limit }) at time t: the call and the
\* caches after it
findProjectsBySkill(handle, skill, limit, t) ==
    LET cacheKey == SkillKey(skill)
        ekey == EmbedKey(Str(skill))
        cached == getCache(searchCache, cacheKey, t)
        smap == afterGetCache(searchCache, cacheKey, t)
        ecached == getCache(embedCache, ekey, t)
        emap == afterGetCache(embedCache, ekey, t)
        vec == Embedding(Str(skill), "e1", MODEL_DIMS(MODEL))
    IN  IF cached.hit
        THEN [call |-> [op |-> "findProjectsBySkill", n |-> last.n + 1, skill |-> skill,
                        limit |-> limit, at |-> t, cached |-> TRUE, did |-> {},
                        results |-> cached.value],
              searchCache |-> searchCache, embedCache |-> embedCache, setLog |-> setLog]
        ELSE CHOOSE out \in
               { [call |-> [op |-> "findProjectsBySkill", n |-> last.n + 1,
                            skill |-> skill, limit |-> limit, at |-> t,
                            cached |-> FALSE,
                            did |-> IF ecached.hit THEN {"query"} ELSE {"embed", "query"},
                            results |-> results],
                  searchCache |-> setCache(smap, cacheKey, results, SkillTtl, t),
                  embedCache |-> IF ecached.hit THEN emap
                                 ELSE setCache(emap, ekey, vec, EmbedTtl, t),
                  setLog |-> MapSet(setLog, cacheKey,
                                    [t0 |-> t, ttl |-> SkillTtl, value |-> results])]
                 : results \in { ProjectMatches(
                                    GroupByRepo(SkillMatches(handle, skill), skill, << >>),
                                    LimitOf(limit)) } } : TRUE

MaxMatches == 3

MaxSkillCalls == 2

Skills == { <<"r">>, <<"R", "s">> }

Limits == { << >>, <<1>>, <<2>> }

SkillInstants == {0, SkillTtl, SkillTtl + 1}

SkillRecord(id, meta) == [id |-> id, values |-> Embedding("", "e1", MODEL_DIMS(MODEL)),
                          metadata |-> meta]

\* records of the repositories p, s and t, one without a repository in its
\* metadata and one without metadata; the tags come as an array, as a legacy
\* comma-separated string, or not at all
SkillPool ==
    { SkillRecord("k1", [repo |-> "p", path |-> "a.ts", start |-> 1,
                         techStack |-> [kind |-> "array", tags |-> << <<"R">> >>]]),
      SkillRecord("k2", [repo |-> "p", path |-> "b.md", start |-> 1,
                         techStack |-> [kind |-> "array", tags |-> << <<"x">> >>]]),
      SkillRecord("k3", [repo |-> "s", path |-> "b.md", start |-> 0,
                         techStack |-> [kind |-> "string",
                                        text |-> <<"x", ",", " ", "S", " ", ",">>]]),
      SkillRecord("k4", [repo |-> "s", path |-> None, start |-> 0,
                         techStack |-> [kind |-> "absent"]]),
      SkillRecord("k5", [repo |-> None, path |-> "a.ts", start |-> 2,
                         techStack |-> [kind |-> "array", tags |-> << <<"R">> >>]]),
      SkillRecord("k6", NoMetadata),
      SkillRecord("k7", [repo |-> "t", path |-> "b.md", start |-> 1,
                         techStack |-> [kind |-> "array", tags |-> << >>]]) }

\* one match for each of DefaultLimit + 1 repositories
ManyRepos ==
    { SkillRecord(ToString(k), [repo |-> ToString(k), path |-> "a.ts", start |-> k,
                                techStack |-> [kind |-> "absent"]])
      : k \in 1..(DefaultLimit + 1) }

SkillStores ==
    { S \in SUBSET SkillPool : Cardinality(S) <= MaxMatches } \cup {ManyRepos}

InitSkill ==
    /\ IdlePure /\ IdleCache /\ IdleCalls
    /\ files = << >>
    /\ store \in { MapSet(EmptyMap, IndexHandle.ns, S) : S \in SkillStores }
    /\ ing = [pc |-> "idle"]
    /\ runs = << >>
    /\ lex = [file |-> "absent", mini |-> TRUE, hits |-> << >>]
    /\ last = NoSearch

FindProjectsBySkill(t, skill, limit) ==
    /\ last.n < MaxSkillCalls
    /\ t >= now
    /\ now' = t
    /\ \E out \in {findProjectsBySkill(IndexHandle, skill, limit, t)} :
          /\ last' = out.call
          /\ searchCache' = out.searchCache
          /\ embedCache' = out.embedCache
          /\ setLog' = out.setLog
    /\ UNCHANGED <<pure, files, store, ing, runs, lex, searches, pool>>

NextSkill ==
    \E t \in SkillInstants : \E skill \in Skills : \E limit \in Limits :
        FindProjectsBySkill(t, skill, limit)

SpecSkill == InitSkill /\ [][NextSkill]_vars

Elems(arr) == { arr[k] : k \in DOMAIN arr }

\* the matches of the store for the skill that name the repository
MatchesOf(skill, repo) ==
    LET ms == SkillMatches(IndexHandle, skill)
    IN  { ms[k] : k \in { k \in DOMAIN ms : HasRepo(ms[k]) /\ ms[k].metadata.repo = repo } }

ReposOf(skill) ==
    LET ms == SkillMatches(IndexHandle, skill)
    IN  { ms[k].metadata.repo : k \in { k \in DOMAIN ms : HasRepo(ms[k]) } }

\* the greatest adjusted score of the matches of a repository
TopScore(skill, repo) ==
    CHOOSE sc \in { adjustedScore(m, skill) : m \in MatchesOf(skill, repo) } :
        \A m \in MatchesOf(skill, repo) : adjustedScore(m, skill) <= sc

Computed == last.op = "findProjectsBySkill" /\ ~last.cached

C17_DefaultLimit ==
    /\ Computed
    /\ last.limit = << >>
    /\ Cardinality(ReposOf(last.skill)) = DefaultLimit + 1
    /\ Len(last.results) = DefaultLimit

\* C18: every findProjectsBySkill call returns the limit highest-scoring
\* repositories of its skill, all of them when there are fewer, whatever the
\* calls before it.
C18_LimitHonoured ==
    last.op = "findProjectsBySkill" =>
        LET res == last.results
            returned == { res[i].repo : i \in DOMAIN res }
        IN  /\ Len(res) = Min(LimitOf(last.limit), Cardinality(ReposOf(last.skill)))
            /\ returned \subseteq ReposOf(last.skill)
            /\ \A repo \in ReposOf(last.skill) \ returned : \A i \in DOMAIN res :
                  TopScore(last.skill, repo) <= res[i].score

\* C18 (for the calls that query the store): the repositories returned are
\* the limit highest-scoring ones.
ComputedHonoursLimit == Computed => C18_LimitHonoured

(***************************************************************************)
(* Bulk ingestion: ingest-all, ingest-org and ingest-repos map the list of *)
(* repositories to tasks under pLimit; each task is one ingestRepo call    *)
(* with the handle pc.index(indexName).  A number that need not be an      *)
(* integer is [int |-> v, half |-> h], standing for v + h/2; NaN is        *)
(* [nan |-> TRUE].                                                         *)
(***************************************************************************)
Num(v) == [nan |-> FALSE, int |-> v, half |-> 0]

NaN == [nan |-> TRUE, int |-> 0, half |-> 0]

Absent == [nan |-> FALSE, int |-> 0, half |-> 0, absent |-> TRUE]

\* x < y on the numbers that are not NaN
NumLess(x, y) == 2 * x.int + x.half < 2 * y.int + y.half

\* Math.min(x, y) and Math.max(x, y): NaN when an argument is NaN
MathMinNum(x, y) == IF x.nan \/ y.nan THEN NaN ELSE IF NumLess(y, x) THEN y ELSE x

MathMaxNum(x, y) == IF x.nan \/ y.nan THEN NaN ELSE IF NumLess(x, y) THEN y ELSE x

\* pLimit(2), whatever concurrency is asked for
SlotsAlwaysTwo(concurrency) == Num(2)

\* Math.max(1, Math.min(args.concurrency ?? 2, 5))
Slots(concurrency) ==
    MathMaxNum(Num(1), MathMinNum(IF concurrency = Absent THEN Num(2) ELSE concurrency,
                                  Num(5)))

\* pLimit(n) throws a TypeError unless n is a positive integer (or Infinity)
pLimitThrows(n) == n.nan \/ n.half # 0 \/ n.int < 1

MaxRepos == 6

\* the repositories a listing returns: TinyRepos have one small file each;
\* the repositories of PairLists have one file of two upsert batches
TinyRepos == [k \in 1..MaxRepos |-> [owner |-> "o", name |-> ToString(k)]]

PairLists ==
    { << [owner |-> "o", name |-> "a"], [owner |-> "o", name |-> "b"] >>,
      << [owner |-> "o", name |-> "r"], [owner |-> "u", name |-> "r"] >> }

\* what each repository holds
WorkTree(repo) ==
    IF repo \in Elems(TinyRepos)
    THEN << [path |-> "a.ts", ext |-> ".ts", text |-> Run("q", 5)] >>
    ELSE << [path |-> "big.ts", ext |-> ".ts",
             text |-> Run(IF repo.owner = "o" THEN "q" ELSE "z",
                          CHUNK_TOKENS * BATCH_SIZE + 5)] >>

Concurrencies ==
    { Absent, NaN, Num(-1), Num(0), Num(1), Num(2), Num(MaxRepos - 1), Num(MaxRepos),
      [nan |-> FALSE, int |-> 2, half |-> 1] }

IdleTask == [pc |-> "queued", i |-> 0, wrote |-> {}, tries |-> 0]

InitBulk ==
    /\ IdlePure /\ IdleCache /\ IdleSearch
    /\ files = << >>
    /\ store = EmptyMap
    /\ ing = [pc |-> "idle"]
    /\ runs = << >>
    /\ searches = << >>
    /\ pool \in { [pc |-> "idle", concurrency |-> c, repos |-> SubSeq(TinyRepos, 1, n),
                   queue |-> << >>, active |-> {}, ok |-> 0, fail |-> 0,
                   task |-> [k \in 1..n |-> IdleTask]]
                  : c \in Concurrencies, n \in {0, 1, 3, MaxRepos} }
              \cup
              { [pc |-> "idle", concurrency |-> Absent, repos |-> pair,
                 queue |-> << >>, active |-> {}, ok |-> 0, fail |-> 0,
                 task |-> [k \in 1..2 |-> IdleTask]] : pair \in PairLists }

\* p-limit's next(): while a slot is free and a task is queued, the head of
\* the queue starts, and runs into ingestRepo up to its first await
RECURSIVE Dequeue(_, _)
Dequeue(p, slots) ==
    IF p.queue # << >> /\ Cardinality(p.active) < slots
    THEN Dequeue([p EXCEPT !.queue = Tail(@), !.active = @ \cup {Head(p.queue)},
                           !.task[Head(p.queue)].pc = "fetch",
                           !.task[Head(p.queue)].tries = @ + 1], slots)
    ELSE p

\* await Promise.allSettled(tasks)
Settled(p) ==
    IF p.pc = "running" /\ p.queue = << >> /\ p.active = {}
    THEN [p EXCEPT !.pc = "done"] ELSE p

\* const limit = pLimit(...); const tasks = filtered.map(repo => limit(...))
StartBulk ==
    /\ pool.pc = "idle"
    /\ pool' = IF pLimitThrows(Slots(pool.concurrency))
               THEN [pool EXCEPT !.pc = "crashed"]
               ELSE Settled(Dequeue([pool EXCEPT !.pc = "running",
                                                 !.queue = [k \in DOMAIN pool.repos |-> k]],
                                    Slots(pool.concurrency).int))
    /\ UNCHANGED <<pure, now, searchCache, embedCache, setLog, files, store, ing, runs,
                   lex, last, searches>>

\* a run in which the first failure drops the repositories still waiting
EndTaskAborting(p, k, ok) ==
    Settled(Dequeue([p EXCEPT !.active = @ \ {k},
                              !.task[k].pc = IF ok THEN "ok" ELSE "failed",
                              !.queue = IF ok THEN @ ELSE << >>,
                              !.ok = IF ok THEN @ + 1 ELSE @,
                              !.fail = IF ok THEN @ ELSE @ + 1],
                    Slots(p.concurrency).int))

\* the task of repository k ends: ok++ or fail++, and its slot goes to the
\* next task in the queue
EndTask(p, k, ok) ==
    Settled(Dequeue([p EXCEPT !.active = @ \ {k},
                              !.task[k].pc = IF ok THEN "ok" ELSE "failed",
                              !.ok = IF ok THEN @ + 1 ELSE @,
                              !.fail = IF ok THEN @ ELSE @ + 1],
                    Slots(p.concurrency).int))

\* chunkDocs(repo, docs) on the files fetched from GitHub
RecordsOf(repo) == chunkDocs(repo.name, fetchAllFilesFromGitHub(WorkTree(repo)))

\* ingestRepo of task k up to its upsert loop: the files are fetched, chunked
\* and embedded, or a request fails
FetchAndEmbed(k, ok) ==
    /\ pool.pc = "running"
    /\ k \in pool.active
    /\ pool.task[k].pc = "fetch"
    /\ pool' = IF ~ok THEN EndTask(pool, k, FALSE)
               ELSE IF RecordsOf(pool.repos[k]) = << >> THEN EndTask(pool, k, TRUE)
               ELSE [pool EXCEPT !.task[k].pc = "upsert"]
    /\ UNCHANGED <<pure, now, searchCache, embedCache, setLog, files, store, ing, runs,
                   lex, last, searches>>

\* one index.upsert of task k, and the return of ingestRepo after the last
BulkUpsert(k, ok) ==
    /\ pool.pc = "running"
    /\ k \in pool.active
    /\ pool.task[k].pc = "upsert"
    /\ \E records \in {RecordsOf(pool.repos[k])} :
       \E recs \in { Payload(BatchOf(records, pool.task[k].i),
                             [j \in DOMAIN BatchOf(records, pool.task[k].i) |->
                                Embedding(BatchOf(records, pool.task[k].i)[j].text, "e1",
                                          MODEL_DIMS(MODEL))]) } :
          IF ok
          THEN /\ store' = upsert(store, IndexHandle, recs)
               /\ \E p \in {[pool EXCEPT !.task[k].i = @ + BATCH_SIZE,
                                         !.task[k].wrote = @ \cup RecIds(recs)]} :
                     pool' = IF p.task[k].i < Len(records) THEN p ELSE EndTask(p, k, TRUE)
          ELSE /\ pool' = EndTask(pool, k, FALSE)
               /\ UNCHANGED store
    /\ UNCHANGED <<pure, now, searchCache, embedCache, setLog, files, ing, runs,
                   lex, last, searches>>

NextBulk ==
    \/ StartBulk
    \/ \E k \in 1..MaxRepos : \E ok \in BOOLEAN : FetchAndEmbed(k, ok)
    \/ \E k \in 1..MaxRepos : \E ok \in BOOLEAN : BulkUpsert(k, ok)

SpecBulk == InitBulk /\ [][NextBulk]_vars

\* max(1, min(c, 5)) for a requested concurrency that is an integer, 2 when
\* none is given
SlotBound(c) == IF c = Absent THEN 2 ELSE Max(1, Min(c.int, 5))

InFlight == Cardinality(pool.active)

\* C19: the ingestRepo invocations in flight are never more than
\* max(1, min(c, 5)) for the requested concurrency c (2 when none is given),
\* never more than 5, and while a repository waits at least one is in flight.
C19_BoundedConcurrency ==
    /\ InFlight <= 5
    /\ (~pool.concurrency.nan /\ pool.concurrency.half = 0)
          => InFlight <= SlotBound(pool.concurrency)
    /\ (pool.pc = "running" /\ pool.queue # << >>) => InFlight >= 1

\* C19 (witness): with a concurrency of more than 5 asked for, 5 invocations
\* are in flight while a repository waits.
C19_Witness ==
    /\ pool.concurrency = Num(MaxRepos)
    /\ InFlight = 5
    /\ pool.queue # << >>
    /\ \E k \in pool.active : pool.task[k].pc = "upsert"

\* C19 (witness of the default): with no concurrency given, 2 are in flight.
C19_DefaultTwo ==
    /\ pool.concurrency = Absent
    /\ InFlight = 2
    /\ pool.queue # << >>

\* C20: two ingestRepo invocations for different repositories never write a
\* record with the same id into the same partition, and when both have ended
\* successfully the partition holds what each wrote.
C20_DisjointWrites ==
    \A k \in DOMAIN pool.repos : \A j \in DOMAIN pool.repos :
        (k # j /\ pool.repos[k] # pool.repos[j]) =>
            /\ pool.task[k].wrote \cap pool.task[j].wrote = {}
            /\ (pool.task[k].pc = "ok" /\ pool.task[j].pc = "ok") =>
                   Cardinality(StoreOf(store, IndexHandle.ns))
                       >= Len(RecordsOf(pool.repos[k])) + Len(RecordsOf(pool.repos[j]))

\* C20 (for repositories with different names): the ids written are disjoint.
DisjointWhenNamesDiffer ==
    \A k \in DOMAIN pool.repos : \A j \in DOMAIN pool.repos :
        (k # j /\ pool.repos[k].name # pool.repos[j].name) =>
            pool.task[k].wrote \cap pool.task[j].wrote = {}

(***************************************************************************)
(* Claims on fitMetadata (SpecFit).                                        *)
(***************************************************************************)
HasText(m) == "text" \in DOMAIN m /\ TextLen(m.text) > 0

\* { ...cur, text: original.slice(0, L) + "…", truncated: true }
Candidate(m, L) == WithTextTruncated(m, TextConcat(TextTake(m.text, L), Ellipsis))

\* the truncation lengths whose candidate is within the budget
FittingLengths(m, maxBytes) ==
    { L \in 0..TextLen(m.text) : encodeSize(Candidate(m, L)) <= maxBytes }

NoSurrogates(t) == \A i \in DOMAIN t : t[i].c \notin {"hi", "lo"}

C22_MaximumLength ==
    ( /\ FitDone
      /\ HasText(pure.in.meta)
      /\ encodeSize(pure.in.meta) > pure.in.maxBytes
      /\ FittingLengths(pure.in.meta, pure.in.maxBytes) # {} )
    => \E L \in FittingLengths(pure.in.meta, pure.in.maxBytes) :
          /\ pure.out[1] = Candidate(pure.in.meta, L)
          /\ \A K \in FittingLengths(pure.in.meta, pure.in.maxBytes) : K <= L

\* C22 (for texts without surrogates, whose candidates grow with the
\* length): the greatest length that fits is found.
MaximumLengthOnPlainText ==
    (FitDone /\ HasText(pure.in.meta) /\ NoSurrogates(pure.in.meta.text))
        => C22_MaximumLength

\* C23: a record with non-empty text that exceeds the budget comes back with
\* truncated = true and a text that is a prefix of the original followed by
\* the ellipsis; when no length fits it is the candidate of length 0.
C23_TruncatedPrefix ==
    ( /\ FitDone
      /\ HasText(pure.in.meta)
      /\ encodeSize(pure.in.meta) > pure.in.maxBytes )
    => /\ "truncated" \in DOMAIN pure.out[1]
       /\ pure.out[1].truncated
       /\ \E L \in 0..TextLen(pure.in.meta.text) :
             pure.out[1] = Candidate(pure.in.meta, L)
       /\ FittingLengths(pure.in.meta, pure.in.maxBytes) = {}
             => pure.out[1] = Candidate(pure.in.meta, 0)

\* C23 (but for the marker): the record comes back truncated, with a prefix
\* of the original text that the ellipsis follows or, when no length fits,
\* with the empty text.
TruncatedPrefixOrEmpty ==
    ( /\ FitDone
      /\ HasText(pure.in.meta)
      /\ encodeSize(pure.in.meta) > pure.in.maxBytes )
    => /\ pure.out[1].truncated
       /\ \/ \E L \in FittingLengths(pure.in.meta, pure.in.maxBytes) :
                pure.out[1] = Candidate(pure.in.meta, L)
          \/ /\ FittingLengths(pure.in.meta, pure.in.maxBytes) = {}
             /\ pure.out[1] = WithTextTruncated(pure.in.meta, EmptyText)

(***************************************************************************)
(* askFast: hybridSearch, then the first limit items projected.  An        *)
(* optional parameter is << >> when it is not given, <<v>> when it is.     *)
(***************************************************************************)
MaxAsks == 2

DefaultAskLimit == 8

\* c.text of a record whose metadata has no text: undefined
NoValue == [absent |-> TRUE]

\* { path, start, end, text } whatever includeText is
ProjectWithText(c, includeText) ==
    [path |-> c.path, start |-> c.start, end |-> c.end,
     text |-> IF "text" \in DOMAIN c THEN c.text ELSE NoValue]

\* { path: c.path, start: c.start, end: c.end, ...(includeText ? { text: c.text } : {}) }
Project(c, includeText) ==
    IF includeText
    THEN [path |-> c.path, start |-> c.start, end |-> c.end,
          text |-> IF "text" \in DOMAIN c THEN c.text ELSE NoValue]
    ELSE [path |-> c.path, start |-> c.start, end |-> c.end]

\* const { ..., limit = 8, includeText = true } = params
OrDefault(opt, default) == IF opt = << >> THEN default ELSE opt[1]

\* askFast(params) once hybridSearch has returned found (or thrown): the
\* call as the history keeps it
askFast(found, limit, includeText) ==
    [op |-> "askFast", n |-> found.n, repo |-> found.repo, query |-> found.query,
     limit |-> limit, includeText |-> includeText, at |-> found.at,
     error |-> found.error,
     ctx |-> IF found.error = None THEN found.results ELSE << >>,
     out |-> IF found.error = None
             THEN [i \in 1..Min(OrDefault(limit, DefaultAskLimit), Len(found.results)) |->
                     Project(found.results[i], OrDefault(includeText, TRUE))]
             ELSE << >>]

AskSnapshot ==
    << [path |-> "a.ts", ext |-> ".ts", text |-> Run("q", CHUNK_TOKENS * 9 + 5)] >>

\* a record of an older ingestion, whose metadata has no text
OldRecord ==
    [id |-> "r:old.ts:0-3", values |-> Embedding("", "e1", MODEL_DIMS(MODEL)),
     metadata |-> [repo |-> "r", path |-> "old.ts", start |-> 0, end |-> 3]]

\* the namespace "r" holds the chunks of the snapshot and the old record
InitAsk ==
    /\ IdlePure /\ IdleCache /\ IdleCalls
    /\ files = AskSnapshot
    /\ ing = IdleRun([kind |-> "github", owner |-> "o", name |-> "r",
                      handle |-> IndexNamespace(IndexHandle, "r")])
    /\ \E records \in {chunkDocs("r", fetchAllFilesFromGitHub(files))} :
          store = upsert(MapSet(EmptyMap, "r", {OldRecord}), ing.input.handle,
                         Payload(records,
                                 [k \in DOMAIN records |->
                                    Embedding(records[k].text, "e1", MODEL_DIMS(MODEL))]))
    /\ runs = << >>
    /\ lex \in LexStates(files)
    /\ last = NoSearch

AskLimits == { << >>, <<0>>, <<1>>, <<25>> }

AskFast(t, repo, query, fault) ==
    /\ last.n < MaxAsks
    /\ t >= now
    /\ fault \in Requests(repo, query, t) \cup {"none"}
    /\ now' = t
    /\ \E found \in {hybridSearch(ing.input.handle, repo, query, fault, t)} :
          /\ \E limit \in AskLimits : \E includeText \in {<< >>, <<TRUE>>, <<FALSE>>} :
                last' = askFast(found.call, limit, includeText)
          /\ searchCache' = found.searchCache
          /\ embedCache' = found.embedCache
          /\ setLog' = found.setLog
    /\ UNCHANGED <<pure, files, store, ing, runs, lex, searches, pool>>

\* a first call, and one after the result cache has expired
AskInstants == {0, SearchTtl + 1}

NextAsk ==
    \E t \in AskInstants : \E repo \in {None, "r"} : \E query \in Queries :
    \E fault \in {"none", "query"} :
        AskFast(t, repo, query, fault)

SpecAsk == InitAsk /\ [][NextAsk]_vars

Asked == last.op = "askFast" /\ last.error = None

\* C24: askFast returns the first min(limit, n) items of the hybridSearch
\* result, in its order, each with path, start and end, and with text exactly
\* when includeText is true; limit is 8 and includeText true when not given.
C24_AskProjection ==
    Asked =>
        LET limit == IF last.limit = << >> THEN 8 ELSE last.limit[1]
            withText == IF last.includeText = << >> THEN TRUE ELSE last.includeText[1]
        IN  /\ Len(last.out) = Min(limit, Len(last.ctx))
            /\ \A i \in DOMAIN last.out :
                  /\ last.out[i].path = last.ctx[i].path
                  /\ last.out[i].start = last.ctx[i].start
                  /\ last.out[i].end = last.ctx[i].end
                  /\ DOMAIN last.out[i]
                       = {"path", "start", "end"} \cup (IF withText THEN {"text"} ELSE {})
                  /\ (withText /\ "text" \in DOMAIN last.ctx[i])
                        => last.out[i].text = last.ctx[i].text

\* C24 (witness): a call without a limit on a result of more than 8 items
\* returned 8, without text as asked.
C24_Witness ==
    /\ Asked
    /\ last.limit = << >>
    /\ last.includeText = <<FALSE>>
    /\ Len(last.ctx) > 8
    /\ Len(last.out) = 8

\* C24 (witness of the text): a call returned fewer items than its limit,
\* each with its text.
C24_WithText ==
    /\ Asked
    /\ last.limit = <<25>>
    /\ last.includeText = << >>
    /\ Len(last.out) = Len(last.ctx)
    /\ Len(last.out) > 8
    /\ \E i \in DOMAIN last.out : last.out[i].text = last.ctx[i].text

(***************************************************************************)
(* Claims on the failures of an ingestRepo run (Spec).                     *)
(***************************************************************************)
\* the HTTP status of a provider answer that is not ok
HttpStatus == 500

\* the number of records the store took in the run before it ended
RECURSIVE CommittedRecords(_)
CommittedRecords(calls) ==
    IF calls = << >> THEN 0
    ELSE (IF Head(calls).op = "upsert" /\ Head(calls).ok THEN Head(calls).n ELSE 0)
         + CommittedRecords(Tail(calls))

\* the token count of the first text of the batch at ing.i that is too long
FirstExcess(run) ==
    LET batch == BatchOf(run.records, run.i)
        j == CHOOSE k \in DOMAIN batch :
                /\ Tokens(batch[k].text) > MAX_TOKENS
                /\ \A h \in 1..(k - 1) : Tokens(batch[h].text) <= MAX_TOKENS
    IN  Tokens(batch[j].text)

\* the numbers the message of the error of a failed run states:
\*   `Chunk exceeds ${MAX_TOKENS} tokens: ${t}`
\*   `Embedding API ${res.status}: ${body}`
\*   `Unknown dims for model ${MODEL}`
\*   `Embedding dim mismatch. Expected ${dim}`
\* and the error of index.upsert, which ingestRepo does not catch
StatedNumbers(run) ==
    CASE run.error = "Chunk exceeds" -> {MAX_TOKENS, FirstExcess(run)}
      [] run.error = "Embedding API" -> {HttpStatus}
      [] run.error = "Embedding dim mismatch" -> {MODEL_DIMS(MODEL)}
      [] OTHER -> {}

\* C25: the error of a failed ingestRepo run states the number of records
\* the store had taken before the failure.
C25_ErrorStatesCommitted ==
    ing.pc = "failed" => CommittedRecords(ing.calls) \in StatedNumbers(ing)

\* the paths of the files of the snapshot whose text is empty or whitespace
BlankPaths == { files[k].path : k \in { j \in DOMAIN files : IsBlank(files[j].text) } }

EmptyPaths == { files[k].path : k \in { j \in DOMAIN files : files[j].text = EmptyText } }

\* no chunk, no text sent to the provider and no stored record is of a file
\* of paths
NothingOf(paths) ==
    /\ \A k \in DOMAIN ing.records : ing.records[k].path \notin paths
    /\ \A r \in WholeStore : r.metadata.path \notin paths

\* C26: on both paths of ingestRepo, a file whose text is empty or only
\* whitespace yields no chunk, and so no embedded and no upserted record.
C26_BlankFileYieldsNothing == NothingOf(BlankPaths)

\* what holds: an empty file yields nothing on both paths, a whitespace-only
\* file yields nothing on the local path
BlankLocallyEmptyAnywhere ==
    /\ NothingOf(EmptyPaths)
    /\ ing.input.kind = "local" => NothingOf(BlankPaths)

\* a run on the local path over the snapshot with a blank file has ended
BlankLocalRun ==
    /\ ing.pc = "done" /\ ing.input.kind = "local"
    /\ BlankPaths # {} /\ WholeStore # {}

\* an embedding request of the run that the provider did not answer
EmbedFailed == \E k \in DOMAIN EmbedCalls : ~EmbedCalls[k].answered

\* every chunk of the run was sent to the provider in an answered request
AllEmbedded ==
    /\ ~EmbedFailed
    /\ SentTexts(EmbedCalls) = [k \in DOMAIN ing.records |-> ing.records[k].text]

\* a vector the provider returned has another length than the model's
WrongLength(vectors) ==
    { j \in DOMAIN vectors : vectors[j].dim # MODEL_DIMS(MODEL) } # {}

\* one of the three failures named: a chunk over the token ceiling, a failed
\* embedding request, a vector whose length is not the model's
MustFail ==
    \/ \E k \in DOMAIN ing.records : Tokens(ing.records[k].text) > MAX_TOKENS
    \/ EmbedFailed
    \/ WrongLength(ing.vectors)

\* C27: a run issues an upsert request only after every chunk was embedded
\* and the dimension check has passed; when a chunk is over the token
\* ceiling, an embedding request failed or a vector has another length than
\* the model's, the run issues no upsert request, cannot end successfully,
\* and once it has failed the store is as it was when the call began.
C27_UpsertAfterValidation ==
    /\ (UpsertCalls # << >> \/ ing.pc \in {"upsert", "done"}) =>
          AllEmbedded /\ ~MustFail
    /\ MustFail =>
          /\ UpsertCalls = << >>
          /\ ing.pc \in {"embed", "failed"}
          /\ store = ing.before
    /\ (ing.pc = "failed" /\ runs[Len(runs)].stage \in {"embed", "validate"}) =>
          /\ UpsertCalls = << >>
          /\ store = ing.before

\* after a run that filled the store, a run whose second embedding request
\* was answered with vectors of another length has failed at the dimension
\* check
C27_Witness ==
    /\ ing.pc = "failed" /\ ing.error = "Embedding dim mismatch"
    /\ Len(EmbedCalls) = 2
    /\ WrongLength(ing.vectors)
    /\ ~WrongLength(BatchOf(ing.vectors, 0))
    /\ Len(runs) = 2 /\ runs[1].ok
    /\ WholeStore # {}
    /\ store = ing.before

\* a run has failed at an embedding request after one that was answered
FailedAtSecondRequest ==
    /\ ing.pc = "failed" /\ ing.error = "Embedding API"
    /\ Len(EmbedCalls) = 2
    /\ WholeStore # {}

\* the records of upsert request c, one per chunk of its slice, each carry
\* the vector the provider returned for the text of that chunk
Aligned(c) ==
    LET recs == SentAt(c.first)
    IN  \A j \in DOMAIN recs :
           /\ recs[j].id = ing.records[c.first + j].id
           /\ recs[j].values.defined
           /\ recs[j].values.of = ing.records[c.first + j].text

\* C28: in every upsert request of a run, the record of chunk x carries the
\* vector the provider returned for the text of chunk x.
C28_IndexAlignment == \A k \in DOMAIN UpsertCalls : Aligned(UpsertCalls[k])

\* what holds: the records are aligned in the runs in which every embedding
\* request was answered with as many vectors as texts
AlignedWhenCountsMatch ==
    (\A k \in DOMAIN ing.calls : ~CountMismatch(ing.calls[k])) => C28_IndexAlignment

\* two upsert requests of a run whose embedding answers had the right counts
AlignedAcrossBatches ==
    /\ ing.pc = "done" /\ Len(UpsertCalls) = 2 /\ Len(EmbedCalls) = 2
    /\ \A k \in DOMAIN ing.calls : ~CountMismatch(ing.calls[k])

\* a request the store accepted holds a record with the vector of another
\* chunk's text
StoredMisaligned ==
    \E k \in DOMAIN UpsertCalls : UpsertCalls[k].ok /\ ~Aligned(UpsertCalls[k])

(***************************************************************************)
(* Claims on the requests of embedInBatches (SpecEmbed).                   *)
(***************************************************************************)
\* Math.ceil(n / BATCH_SIZE)
BatchCount(n) == (n + BATCH_SIZE - 1) \div BATCH_SIZE

\* C29: the k-th request of embedInBatches carries the inputs from
\* (k-1)*BATCH_SIZE on, in order, at most BATCH_SIZE of them and all that are
\* left when fewer, so that no input is in two requests and no batch is
\* requested twice; a request that fails is the last one and ends the call;
\* when embedInBatches returns it has made ceil(n / BATCH_SIZE) requests
\* that hold every input.
C29_EmbedBatches ==
    LET n == Len(ing.records)
    IN  /\ Len(EmbedCalls) <= BatchCount(n)
        /\ \A k \in DOMAIN EmbedCalls :
              LET c == EmbedCalls[k]
              IN  /\ c.first = (k - 1) * BATCH_SIZE
                  /\ c.n = Min(BATCH_SIZE, n - c.first)
                  /\ c.n > 0 /\ c.n <= BATCH_SIZE
                  /\ c.sent = [j \in 1..c.n |-> ing.records[c.first + j].text]
                  /\ ~c.answered => (k = Len(EmbedCalls) /\ ing.pc = "failed"
                                     /\ ing.error = "Embedding API")
                  /\ k < Len(EmbedCalls) => c.answered
        /\ Returned =>
              /\ Len(EmbedCalls) = BatchCount(n)
              /\ \A k \in DOMAIN EmbedCalls : EmbedCalls[k].answered
              /\ Len(SentTexts(EmbedCalls)) = n

\* embedInBatches has returned after two requests: one of BATCH_SIZE inputs
\* and one of the two that were left
C29_Witness ==
    /\ Returned
    /\ Len(ing.records) = BATCH_SIZE + 2
    /\ Len(EmbedCalls) = 2
    /\ EmbedCalls[1].n = BATCH_SIZE /\ EmbedCalls[2].n = 2

\* the first of two requests failed: it was the last one
FailedFirstOfTwo ==
    /\ ing.pc = "failed" /\ ing.error = "Embedding API"
    /\ Len(ing.records) = 2 * BATCH_SIZE
    /\ Len(EmbedCalls) = 1 /\ ~EmbedCalls[1].answered

\* embedInBatches of no input has returned without a request
ReturnedWithoutRequest == Returned /\ ing.records = << >> /\ EmbedCalls = << >>

(***************************************************************************)
(* SpecOrder: the upsert requests of one ingestRepo call, applied to the   *)
(* store in any order.  ingestRepo itself issues them in chunk order; here *)
(* each request of the call that was not yet applied may be the next.      *)
(***************************************************************************)
MaxOrderFiles == 3

\* MaxOrderFiles files of BigChunks chunks each
OrderSnapshot ==
    [k \in 1..MaxOrderFiles |->
        [path |-> "f" \o ToString(k) \o ".ts", ext |-> ".ts",
         text |-> Run("q", CHUNK_TOKENS * (BigChunks - 1) + 5)]]

\* the vectors of a run in which every request was answered with variant
VectorsOf(records, variant) ==
    [k \in DOMAIN records |-> Embedding(records[k].text, variant, MODEL_DIMS(MODEL))]

\* for (let i = 0; i < records.length; i += BATCH_SIZE) index.upsert(...):
\* the store after the requests from chunk first on were applied to st in
\* chunk order
RECURSIVE UpsertAll(_, _, _, _, _)
UpsertAll(st, handle, records, vectors, first) ==
    IF ~(first < Len(records)) THEN st
    ELSE UpsertAll(upsert(st, handle,
                          Payload(BatchOf(records, first), BatchOf(vectors, first))),
                   handle, records, vectors, first + BATCH_SIZE)

\* the store after an earlier run on the snapshot with other embeddings
FilledBy(input) ==
    LET records == chunkDocs(RepoOf(input), DocsOf(input, OrderSnapshot))
    IN  UpsertAll(EmptyMap, input.handle, records, VectorsOf(records, "e2"), 0)

InitOrder ==
    /\ IdlePure /\ IdleCache /\ IdleCalls /\ IdleSearch
    /\ files = OrderSnapshot
    /\ runs = << >>
    /\ \E input \in { x \in IngestInputs : x.handle = IndexHandle } :
          /\ ing = IdleRun(input)
          /\ store \in {EmptyMap, FilledBy(input)}

\* ingestRepo up to its upsert loop: the files are chunked, every chunk is
\* embedded and the dimension check passes
EmbedAll ==
    /\ ing.pc = "idle"
    /\ \E records \in {chunkDocs(RepoOf(ing.input), DocsOf(ing.input, files))} :
          ing' = [ing EXCEPT
                    !.pc = "upsert", !.repo = RepoOf(ing.input),
                    !.namespace = NamespaceOf(ing.input),
                    !.nfiles = FilesOf(ing.input, files),
                    !.records = records,
                    !.vectors = VectorsOf(records, "e1"),
                    !.before = store]
    /\ UNCHANGED <<pure, now, searchCache, embedCache, setLog, files, store, runs, lex, last, searches, pool>>

\* the first chunks of the upsert requests of the call
BatchStarts == { b * BATCH_SIZE : b \in 0..(BatchCount(Len(ing.records)) - 1) }

\* index.upsert of the request that starts at chunk first
UpsertAnyBatch(first) ==
    /\ ing.pc = "upsert"
    /\ first \in BatchStarts
    /\ \A k \in DOMAIN ing.calls : ing.calls[k].first # first
    /\ \E recs \in {SentAt(first)} :
          /\ store' = upsert(store, ing.input.handle, recs)
          /\ ing' = [ing EXCEPT
                       !.calls = Append(@, [op |-> "upsert", ns |-> ing.input.handle.ns,
                                            first |-> first, n |-> Len(recs),
                                            ok |-> TRUE])]
    /\ UNCHANGED <<pure, now, searchCache, embedCache, setLog, files, runs, lex, last, searches, pool>>

NextOrder ==
    \/ EmbedAll
    \/ \E b \in 0..MaxOrderFiles : UpsertAnyBatch(b * BATCH_SIZE)

SpecOrder == InitOrder /\ [][NextOrder]_vars

\* the store after the requests of the call were applied to st in chunk
\* order, as the loop of ingestRepo applies them
InChunkOrder(st) == UpsertAll(st, ing.input.handle, ing.records, ing.vectors, 0)

AllApplied == ing.pc = "upsert" /\ Len(ing.calls) = Cardinality(BatchStarts)

\* C30: when every upsert request of a call has been applied, in whatever
\* order, the store is the one that applying them in chunk order to the
\* store of before the call gives.
C30_OrderIndependent ==
    AllApplied => store = InChunkOrder(ing.before)

\* the four requests of a call were applied last to first, on a store that
\* held other records with the same ids
C30_Witness ==
    /\ AllApplied
    /\ Len(ing.calls) = 4
    /\ \A k \in 1..3 : ing.calls[k].first > ing.calls[k + 1].first
    /\ ing.before # EmptyMap
    /\ store # ing.before

(***************************************************************************)
(* Claims on the eviction of cache entries (SpecCache).                    *)
(***************************************************************************)
\* the entry of key k is the same before and after the step
SameEntry(k) ==
    /\ k \in DOMAIN searchCache /\ k \in DOMAIN searchCache'
    /\ searchCache'[k] = searchCache[k]

\* C31: a key leaves the map only in a getCache on that key whose entry had
\* expired, and that getCache reports absent; a getCache on a key removes
\* its expired entry, leaves its unexpired entry as it was, leaves the entry
\* of every other key as it was and adds no key.
C31_LazyEviction ==
    [][\A k \in CacheKeys :
          /\ (k \in DOMAIN searchCache /\ k \notin DOMAIN searchCache') =>
                /\ GetCacheCall(k)
                /\ Expired(searchCache[k], now)
                /\ last'.result = Undefined
          /\ GetCacheCall(k) =>
                /\ DOMAIN searchCache' \subseteq DOMAIN searchCache
                /\ \A j \in DOMAIN searchCache \ {k} : SameEntry(j)
                /\ (k \in DOMAIN searchCache /\ ~Expired(searchCache[k], now)) =>
                      SameEntry(k)
                /\ (k \in DOMAIN searchCache /\ Expired(searchCache[k], now)) =>
                      /\ k \notin DOMAIN searchCache'
                      /\ last'.result = Undefined]_vars

\* a getCache has removed the expired entry of its key and reported absent
\* while the expired entry of the other key is still in the map
C31_Witness ==
    /\ last.op = "getCache" /\ last.at = now
    /\ last.result = Undefined
    /\ last.key \in DOMAIN setLog
    /\ last.key \notin DOMAIN searchCache
    /\ \E j \in DOMAIN searchCache : j # last.key /\ Expired(searchCache[j], now)

(***************************************************************************)
(* SpecQuery: embedQuery calls, one after the other, on the embedding      *)
(* cache.  A call that asks the provider is suspended until the answer     *)
(* comes, Latency milliseconds later.                                      *)
(***************************************************************************)
MaxEmbedQueries == 3

Latency == 1

\* process.env.OPENAI_EMBED_MODEL || "text-embedding-3-large"
ModelOf(env) == IF env = "" THEN MODEL ELSE env

\* a call that asks the provider whatever the cache holds
embedQueryNoCache(map, env, query, answer, t, wait) ==
    [hit |-> FALSE, requests |-> 1, error |-> None,
     vec |-> <<Embedding(query, answer, MODEL_DIMS(ModelOf(env)))>>,
     map |-> setCache(map, ModelOf(env) \o "|" \o query,
                      Embedding(query, answer, MODEL_DIMS(ModelOf(env))),
                      EmbedTtl, t + wait),
     ended |-> t + wait]

\* embedQuery(openaiApiKey, query) called at time t: what it returns, the
\* requests it makes to the provider, the cache after it and the time at
\* which it ends.  answer is the provider's: a vector, or "error".
embedQuery(map, env, query, answer, t, wait) ==
    LET model == ModelOf(env)
        cacheKey == model \o "|" \o query
        cached == getCache(map, cacheKey, t)
        looked == afterGetCache(map, cacheKey, t)
        vec == Embedding(query, answer, MODEL_DIMS(model))
    IN  IF cached.hit
        THEN [hit |-> TRUE, requests |-> 0, error |-> None, vec |-> <<cached.value>>,
              map |-> looked, ended |-> t]
        ELSE IF answer = "error"
        THEN [hit |-> FALSE, requests |-> 1, error |-> "embedding failed", vec |-> << >>,
              map |-> looked, ended |-> t + wait]
        ELSE [hit |-> FALSE, requests |-> 1, error |-> None, vec |-> <<vec>>,
              map |-> setCache(looked, cacheKey, vec, EmbedTtl, t + wait),
              ended |-> t + wait]

InitQuery ==
    /\ IdlePure /\ IdleCache /\ IdleCalls /\ IdleIngest /\ IdleSearch

\* the time between two calls: none, up to the deadline of an entry that
\* the call before stored, or past it
Pauses == {0, EmbedTtl, EmbedTtl + 1}

\* the vector the provider would return now: another one for each call
FreshVariant == "e" \o ToString(Len(searches) + 1)

EmbedQuery(pause, env, query, answer, wait) ==
    /\ Len(searches) < MaxEmbedQueries
    /\ \E out \in {embedQuery(embedCache, env, query, answer, now + pause, wait)} :
          /\ searches' = Append(searches,
                                [op |-> "embedQuery", env |-> env, query |-> query,
                                 at |-> now + pause, before |-> embedCache,
                                 out |-> out])
          /\ embedCache' = out.map
          /\ now' = out.ended
    /\ UNCHANGED <<pure, searchCache, setLog, files, store, ing, runs, lex, last, pool>>

NextQuery ==
    \E pause \in Pauses : \E env \in {"", "text-embedding-3-small"} :
    \E answer \in {FreshVariant, "error"} :
        EmbedQuery(pause, env, "q1", answer, Latency)

SpecQuery == InitQuery /\ [][NextQuery]_vars

\* the entry that embedQuery call c found for its model and query, if it had
\* not expired when the call was made
Found(c) ==
    LET k == (IF c.env = "" THEN "text-embedding-3-large" ELSE c.env) \o "|" \o c.query
    IN  IF k \in DOMAIN c.before /\ c.before[k].expires >= c.at
        THEN <<c.before[k]>> ELSE << >>

\* the cache right after call k of the behaviour
CacheAfter(k) == IF k = Len(searches) THEN embedCache ELSE searches[k + 1].before

\* C32: an embedQuery call that finds an unexpired entry for its model and
\* query makes no provider request, returns the vector of the entry and
\* leaves the cache as it was; a call that does not makes exactly one
\* request and, when the provider answers, returns the answer and leaves
\* under its key an entry with that vector which expires 60000 ms after the
\* answer came, and leaves the entries of the other keys as they were.
C32_EmbedCache ==
    \A k \in DOMAIN searches :
       LET c == searches[k]
           key == ModelOf(c.env) \o "|" \o c.query
       IN  IF Found(c) # << >>
           THEN /\ c.out.requests = 0
                /\ c.out.vec = <<Found(c)[1].value>>
                /\ CacheAfter(k) = c.before
           ELSE /\ c.out.requests = 1
                /\ c.out.error = None =>
                      /\ c.out.vec # << >>
                      /\ c.out.vec[1].of = c.query
                      /\ key \in DOMAIN CacheAfter(k)
                      /\ CacheAfter(k)[key] = [value |-> c.out.vec[1],
                                               expires |-> c.out.ended + 60000]
                      /\ \A j \in DOMAIN c.before \ {key} :
                            j \in DOMAIN CacheAfter(k) /\ CacheAfter(k)[j] = c.before[j]

\* a call missed and stored the provider's vector; a call on the same model
\* and query made exactly at the deadline of the entry returned that vector
\* without a request, though the provider would now answer otherwise; the
\* call after it, past the deadline, missed and got another vector
C32_Witness ==
    /\ Len(searches) = 3
    /\ searches[1].out.requests = 1 /\ searches[1].out.error = None
    /\ searches[2].at = searches[1].out.ended + 60000
    /\ searches[2].out.hit /\ searches[2].out.requests = 0
    /\ searches[2].out.vec = searches[1].out.vec
    /\ ~searches[3].out.hit /\ searches[3].out.requests = 1
    /\ searches[3].query = searches[1].query /\ searches[3].env = searches[1].env
    /\ searches[3].out.vec # searches[1].out.vec
    /\ searches[3].out.error = None

(***************************************************************************)
(* SpecKeys: hybridSearch and findProjectsBySkill calls, one after the     *)
(* other, sharing the result cache.  The repository names and the skills   *)
(* are strings the callers choose; searches holds the calls in order.      *)
(***************************************************************************)
MaxKeyCalls == 3

\* a repository named as the key prefix of a search without repo, and one
\* named as the prefix of a skill key
KeyRepos == {None, "_all", "skill:r"}

KeySkills == { <<"r">>, <<"r", "|", "q", "1">> }

\* one record in the default namespace and one in each repository's
KeyStore ==
    [ns \in {DefaultNamespace, "_all", "skill:r"} |->
        { SkillRecord("k:" \o ns,
                      [repo |-> IF ns = DefaultNamespace THEN "p" ELSE ns,
                       path |-> "a.ts", start |-> 1,
                       techStack |-> [kind |-> "absent"]]) }]

InitKeys ==
    /\ IdlePure /\ IdleCache /\ IdleCalls
    /\ files = << >>
    /\ store = KeyStore
    /\ ing = [pc |-> "idle"]
    /\ runs = << >>
    /\ lex = [file |-> "absent", mini |-> TRUE, hits |-> << >>]
    /\ last = NoSearch

\* a hybridSearch call at time t that the provider and the store answer
SearchByRepo(t, repo, query) ==
    /\ Len(searches) < MaxKeyCalls
    /\ t >= now
    /\ now' = t
    /\ \E out \in {hybridSearch(IndexHandle, repo, query, "none", t)} :
          /\ searches' = Append(searches, out.call)
          /\ searchCache' = out.searchCache
          /\ embedCache' = out.embedCache
          /\ setLog' = out.setLog
    /\ UNCHANGED <<pure, files, store, ing, runs, lex, last, pool>>

\* a findProjectsBySkill call at time t
SearchBySkill(t, skill) ==
    /\ Len(searches) < MaxKeyCalls
    /\ t >= now
    /\ now' = t
    /\ \E out \in {findProjectsBySkill(IndexHandle, skill, << >>, t)} :
          /\ searches' = Append(searches, out.call)
          /\ searchCache' = out.searchCache
          /\ embedCache' = out.embedCache
          /\ setLog' = out.setLog
    /\ UNCHANGED <<pure, files, store, ing, runs, lex, last, pool>>

NextKeys ==
    \/ \E t \in {0, 1} : \E repo \in KeyRepos : SearchByRepo(t, repo, "q1")
    \/ \E t \in {0, 1} : \E skill \in KeySkills : SearchBySkill(t, skill)

SpecKeys == InitKeys /\ [][NextKeys]_vars

\* two calls make the same request: the same function with the same
\* repository and query, or with the same skill
SameRequest(a, b) ==
    /\ a.op = b.op
    /\ IF a.op = "hybridSearch" THEN a.repo = b.repo /\ a.query = b.query
       ELSE a.skill = b.skill

\* the result-cache key of a call
KeyOf(c) == IF c.op = "hybridSearch" THEN SearchKey(c.repo, c.query) ELSE SkillKey(c.skill)

\* C33: a call served from the result cache returns a value that an earlier
\* call making the same request computed and stored.
C33_KeysSeparateRequests ==
    \A k \in DOMAIN searches :
       searches[k].cached =>
          \E j \in 1..(k - 1) :
             /\ ~searches[j].cached
             /\ SameRequest(searches[j], searches[k])
             /\ searches[j].results = searches[k].results

\* what holds: the value was stored by an earlier call whose key is the same
\* string
HitFromSameKey ==
    \A k \in DOMAIN searches :
       searches[k].cached =>
          \E j \in 1..(k - 1) :
             /\ ~searches[j].cached
             /\ KeyOf(searches[j]) = KeyOf(searches[k])
             /\ searches[j].results = searches[k].results

\* a hybridSearch on a repository is served the list a skill search stored
SkillListForRepo ==
    \E k \in DOMAIN searches :
       /\ searches[k].cached /\ searches[k].op = "hybridSearch"
       /\ \E j \in 1..(k - 1) :
             /\ searches[j].op = "findProjectsBySkill" /\ ~searches[j].cached
             /\ searches[j].results = searches[k].results
       /\ \A j \in 1..(k - 1) : searches[j].op # "hybridSearch"

\* a hybridSearch on the repository _all is served the list of a search
\* without repo
AllListForRepo ==
    /\ Len(searches) = 2
    /\ searches[1].op = "hybridSearch" /\ searches[1].repo = None
    /\ searches[2].op = "hybridSearch" /\ searches[2].repo = "_all"
    /\ searches[2].cached
    /\ searches[2].results # << >>

(***************************************************************************)
(* Claims on the failures of hybridSearch (SpecSearch).                    *)
(***************************************************************************)
\* the call failed at the embedding request or at the vector-store query
VectorPathFailed(c) ==
    c.op = "hybridSearch" /\ c.error \in {"embedding failed", "query failed"}

\* C34: a hybridSearch call whose embedding request or vector-store query
\* fails ends with that error, returns nothing, and leaves no entry under
\* its result-cache key and no other entry changed; the next call with the
\* same repo and query is not served from the cache: it queries the vector
\* store, unless its own embedding request fails.
C34_FailureNotCached ==
    [][(last'.op = "hybridSearch" /\ last'.n = last.n + 1) =>
          /\ VectorPathFailed(last') =>
                /\ "results" \notin DOMAIN last'
                /\ "query" \in last'.did \/ "embed" \in last'.did
                /\ SearchKey(last'.repo, last'.query) \notin DOMAIN searchCache'
                /\ \A k \in DOMAIN searchCache' :
                      k \in DOMAIN searchCache /\ searchCache'[k] = searchCache[k]
                /\ setLog' = setLog
          /\ (VectorPathFailed(last) /\ last'.repo = last.repo
                                     /\ last'.query = last.query) =>
                /\ ~last'.cached
                /\ "query" \in last'.did \/ last'.error = "embedding failed"]_vars

\* the vector-store query of a call failed whose key had an entry, stored by
\* the call before and expired since: the entry is gone and nothing is cached
C34_Witness ==
    /\ last.op = "hybridSearch" /\ last.n = 2
    /\ last.error = "query failed"
    /\ SearchKey(last.repo, last.query) \in DOMAIN setLog
    /\ SearchKey(last.repo, last.query) \notin DOMAIN searchCache
    /\ store # EmptyMap

(***************************************************************************)
(* Claims on the score boost of findProjectsBySkill (SpecSkill).           *)
(***************************************************************************)
\* a tag of the match contains the skill, case-insensitively
TagContainsSkill(match, skill) ==
    \E k \in DOMAIN techStackArr(match.metadata) :
        includes(toLowerCase(techStackArr(match.metadata)[k]), toLowerCase(skill))

\* the skill contains a tag of the match, case-insensitively
SkillContainsTag(match, skill) ==
    \E k \in DOMAIN techStackArr(match.metadata) :
        includes(toLowerCase(skill), toLowerCase(techStackArr(match.metadata)[k]))

\* the greatest of a set of scores
Greatest(scores) == CHOOSE sc \in scores : \A other \in scores : other <= sc

\* C35: the score of a repository a call returns is the greatest score of
\* its matches, each multiplied by 1.5 when a tag of the match contains the
\* skill case-insensitively and by 1.0 otherwise (scores in halves).
C35_BoostWhenTagContainsSkill ==
    Computed =>
        \A i \in DOMAIN last.results :
           last.results[i].score =
              Greatest({ m.score * (IF TagContainsSkill(m, last.skill) THEN 3 ELSE 2)
                         : m \in MatchesOf(last.skill, last.results[i].repo) })

\* what holds: the factor is 1.5 when a tag contains the skill or the skill
\* contains a tag, and 1.0 otherwise
BoostEitherWay ==
    Computed =>
        \A i \in DOMAIN last.results :
           last.results[i].score =
              Greatest({ m.score * (IF TagContainsSkill(m, last.skill)
                                       \/ SkillContainsTag(m, last.skill)
                                    THEN 3 ELSE 2)
                         : m \in MatchesOf(last.skill, last.results[i].repo) })

\* a repository is returned with a boosted score whose only match has no tag
\* that contains the skill
BoostedBySubstringOfSkill ==
    /\ Computed
    /\ \E i \in DOMAIN last.results :
          \E m \in MatchesOf(last.skill, last.results[i].repo) :
             /\ MatchesOf(last.skill, last.results[i].repo) = {m}
             /\ ~TagContainsSkill(m, last.skill)
             /\ m.score > 0
             /\ last.results[i].score = m.score * 3

\* a repository is returned with a score that is not boosted, and one with a
\* score boosted for a tag that contains the skill
BoostedAndNot ==
    /\ Computed
    /\ \E i \in DOMAIN last.results :
          \E m \in MatchesOf(last.skill, last.results[i].repo) :
             /\ TagContainsSkill(m, last.skill)
             /\ m.score > 0 /\ last.results[i].score = m.score * 3
    /\ \E i \in DOMAIN last.results :
          \E m \in MatchesOf(last.skill, last.results[i].repo) :
             /\ MatchesOf(last.skill, last.results[i].repo) = {m}
             /\ m.score > 0 /\ last.results[i].score = m.score * 2

\* C36: the record fitMetadata returns has every field of its input, with
\* the same value in every field but text and truncated, and no field the
\* input has not but truncated.
C36_OtherFieldsKept ==
    FitDone =>
        /\ \A f \in DOMAIN pure.in.meta :
              /\ f \in DOMAIN pure.out[1]
              /\ f \notin {"text", "truncated"} => pure.out[1][f] = pure.in.meta[f]
        /\ DOMAIN pure.out[1] \subseteq (DOMAIN pure.in.meta) \cup {"truncated"}

\* C36 (witness): the text of a record with a field of its caller's was
\* shortened.
C36_Witness ==
    /\ FitDone
    /\ "lang" \in DOMAIN pure.in.meta
    /\ pure.out[1].lang = "ts"
    /\ "truncated" \in DOMAIN pure.out[1]
    /\ pure.out[1].text # pure.in.meta.text
    /\ TextLen(pure.out[1].text) > 1

(***************************************************************************)
(* SpecDims: ingestRepo runs of a process whose OPENAI_EMBED_MODEL names a *)
(* model that MODEL_DIMS does not hold, or one that it holds.              *)
(***************************************************************************)
EnvModels == {"text-embedding-ada-002", MODEL}

InitDims ==
    /\ IdlePure /\ IdleCache /\ IdleCalls /\ IdleSearch
    /\ files \in Snapshots
    /\ store = EmptyMap
    /\ runs = << >>
    /\ \E model \in EnvModels :
          ing = [IdleRun([kind |-> "github", owner |-> "o", name |-> "r",
                          handle |-> IndexHandle])
                   EXCEPT !.model = model]

SpecDims == InitDims /\ [][Next]_vars

Unmapped == MODEL_DIMS(ing.model) = 0

\* C37: a run of a process whose model has no dimension mapping makes no
\* embedding request and no upsert request, and does not end successfully.
C37_FailsBeforeEmbedding ==
    Unmapped =>
        /\ EmbedCalls = << >>
        /\ UpsertCalls = << >>
        /\ ing.pc \notin {"upsert", "done"}

\* what holds: such a run makes no upsert request, leaves the store as it
\* was and does not end successfully; when all its embedding requests were
\* answered it fails with the configuration error
FailsBeforeUpsert ==
    Unmapped =>
        /\ UpsertCalls = << >>
        /\ ing.pc \notin {"upsert", "done"}
        /\ store = ing.before
        /\ (ing.pc = "failed" /\ ~EmbedFailed) => ing.error = "Unknown dims"

\* a run without a mapping has failed with the configuration error after
\* two answered embedding requests
UnknownDimsAfterEmbedding ==
    /\ Unmapped
    /\ ing.pc = "failed" /\ ing.error = "Unknown dims"
    /\ Len(EmbedCalls) = 2
    /\ \A k \in DOMAIN EmbedCalls : EmbedCalls[k].answered

(***************************************************************************)
(* C38: the failures of bulk ingestion (SpecBulk).  task[k].tries counts   *)
(* the times the task body of repository k was started.                    *)
(***************************************************************************)
Ended(k) == pool.task[k].pc \in {"ok", "failed"}

\* C38: in a bulk run no repository is attempted twice, the success and
\* failure counters count the repositories whose ingestRepo returned and
\* threw, and when the run has completed every targeted repository has been
\* attempted exactly once and the two counters sum to their number, in every
\* interleaving of the tasks.
C38_FailuresIsolated ==
    /\ \A k \in DOMAIN pool.repos : pool.task[k].tries <= 1
    /\ pool.ok = Cardinality({ k \in DOMAIN pool.repos : pool.task[k].pc = "ok" })
    /\ pool.fail = Cardinality({ k \in DOMAIN pool.repos : pool.task[k].pc = "failed" })
    /\ pool.pc = "done" =>
          /\ \A k \in DOMAIN pool.repos : pool.task[k].tries = 1 /\ Ended(k)
          /\ pool.ok + pool.fail = Len(pool.repos)

\* C38 (witness): a run over MaxRepos repositories, one at a time, has
\* completed; the first repository failed and repositories after it failed
\* and succeeded.
C38_Witness ==
    /\ pool.pc = "done"
    /\ pool.concurrency = Num(1)
    /\ Len(pool.repos) = MaxRepos
    /\ pool.task[1].pc = "failed"
    /\ pool.fail = 2
    /\ pool.ok = MaxRepos - 2

\* C38 (witness of the interleaving): with two tasks in flight the second
\* has failed at its upsert while the first is still at its own.
FailedBesideRunning ==
    /\ pool.pc = "running"
    /\ pool.repos \in PairLists
    /\ pool.task[1].pc = "upsert"
    /\ pool.task[2].pc = "failed"
    /\ pool.task[2].wrote # {}

(***************************************************************************)
(* C39: ingestRepo on a store that holds the records of an earlier         *)
(* snapshot of the repository (SpecStale): a.ts was shorter then, and      *)
(* gone.ts has been deleted since.                                         *)
(***************************************************************************)
EarlierSnapshot ==
    << [path |-> "a.ts", ext |-> ".ts", text |-> Run("a", 7)],
       [path |-> "gone.ts", ext |-> ".ts", text |-> Run("q", 5)] >>

\* the store after ingestRepo(input) on the earlier snapshot, in both
\* namespaces
StoreBefore(input) ==
    LET records == chunkDocs(RepoOf(input), DocsOf(input, EarlierSnapshot))
        vectors == VectorsOf(records, "e2")
    IN  UpsertAll(UpsertAll(EmptyMap, IndexHandle, records, vectors, 0),
                  IndexNamespace(IndexHandle, "r"), records, vectors, 0)

InitStale ==
    /\ IdlePure /\ IdleCache /\ IdleCalls /\ IdleSearch
    /\ files \in Snapshots
    /\ runs = << >>
    /\ \E input \in IngestInputs :
          /\ ing = IdleRun(input)
          /\ store = StoreBefore(input)

SpecStale == InitStale /\ [][Next]_vars

IdsIn(st, ns) == { r.id : r \in StoreOf(st, ns) }

\* the ids the chunks of the running call have
IdsOfRun == { ing.records[k].id : k \in DOMAIN ing.records }

\* C39: from the start of an ingestRepo call on, whether it is running, has
\* returned or has failed, every record id the store held when the call
\* began is still in its namespace.
C39_OnlyUpserts ==
    ing.pc # "idle" =>
        \A ns \in DOMAIN ing.before : IdsIn(ing.before, ns) \subseteq IdsIn(store, ns)

\* C39 (witness): a call has returned after writing records, and its
\* namespace still holds ids of the earlier snapshot that the call did not
\* produce, beside the ids it produced.
C39_Witness ==
    /\ ing.pc = "done"
    /\ IdsOfRun # {}
    /\ IdsOfRun \subseteq IdsIn(store, ing.input.handle.ns)
    /\ IdsIn(ing.before, ing.input.handle.ns) \ IdsOfRun # {}
    /\ IdsIn(ing.before, ing.input.handle.ns) \subseteq IdsIn(store, ing.input.handle.ns)

\* C39 (witness of a failing call): a call has failed after one accepted
\* upsert request; the ids of the earlier snapshot are still there.
StaleAfterFailure ==
    /\ ing.pc = "failed"
    /\ Committed(ing.calls) = 1
    /\ IdsIn(ing.before, ing.input.handle.ns) \ IdsOfRun # {}
    /\ IdsIn(ing.before, ing.input.handle.ns) \subseteq IdsIn(store, ing.input.handle.ns)

(***************************************************************************)
(* chunkByLines(text, maxLines, overlap) of utils/chunk.ts (SpecLines).    *)
(* A text is a sequence of characters, of which "\r" and "\n" make line    *)
(* breaks; maxLines and overlap are integers.  The loop is taken one       *)
(* iteration at a time.                                                    *)
(***************************************************************************)
MaxChars == 4

MaxLinesArg == 3

MaxOverlap == 3

LineChars == {"a", "\r", "\n"}

LineTexts == UNION { [1..n -> LineChars] : n \in 0..MaxChars }

\* text.split(/\r?\n/): cur is the line being read, acc the lines before it
RECURSIVE SplitLines(_, _, _)
SplitLines(text, cur, acc) ==
    IF text = << >> THEN Append(acc, cur)
    ELSE IF Head(text) = "\n" THEN SplitLines(Tail(text), << >>, Append(acc, cur))
    ELSE IF Head(text) = "\r" /\ Len(text) >= 2 /\ text[2] = "\n"
    THEN SplitLines(Tail(Tail(text)), << >>, Append(acc, cur))
    ELSE SplitLines(Tail(text), Append(cur, Head(text)), acc)

\* lines.slice(i, j): a negative index counts from the end
SliceIndex(n, i) == IF i < 0 THEN Max(n + i, 0) ELSE Min(i, n)

LinesSlice(lines, i, j) ==
    SubSeq(lines, SliceIndex(Len(lines), i) + 1, SliceIndex(Len(lines), j))

\* arr.join("\n")
RECURSIVE JoinLines(_)
JoinLines(arr) ==
    IF arr = << >> THEN << >>
    ELSE IF Len(arr) = 1 THEN arr[1]
    ELSE arr[1] \o <<"\n">> \o JoinLines(Tail(arr))

\* a loop that steps back by overlap
NextStartStepBack(j, overlap) == j - overlap

\* i = Math.max(j - overlap, j)
NextStart(j, overlap) == Max(j - overlap, j)

InitLines ==
    /\ \E text \in LineTexts : \E maxLines \in 1..MaxLinesArg : \E overlap \in 0..MaxOverlap :
          pure = [op |-> "chunkByLines",
                  in |-> [text |-> text, maxLines |-> maxLines, overlap |-> overlap],
                  lines |-> SplitLines(text, << >>, << >>),
                  i |-> 0, out |-> << >>, pc |-> "loop"]
    /\ IdleCache /\ IdleCalls /\ IdleIngest /\ IdleSearch

\* one iteration of for (let i = 0; i < lines.length; ) { ... }
LinesIteration ==
    /\ pure.op = "chunkByLines"
    /\ pure.pc = "loop"
    /\ LET n == Len(pure.lines)
           i == pure.i
           j == Min(n, i + pure.in.maxLines)
       IN  IF ~(i < n) THEN pure' = [pure EXCEPT !.pc = "done"]
           ELSE pure' = [pure EXCEPT
                           !.out = Append(@, [start |-> i + 1, end |-> j,
                                              text |-> JoinLines(LinesSlice(pure.lines, i, j))]),
                           !.pc = IF j = n THEN "done" ELSE "loop",
                           !.i = IF j = n THEN i ELSE NextStart(j, pure.in.overlap)]
    /\ UNCHANGED <<now, searchCache, embedCache, setLog, files, store, ing, runs, lex, last,
                   searches, pool>>

NextLines == LinesIteration

\* the loop is run to its end: an enabled iteration is taken
SpecLines == InitLines /\ [][NextLines]_vars /\ WF_vars(NextLines)

\* the number of "\n" in a text
RECURSIVE LineFeeds(_)
LineFeeds(text) ==
    IF text = << >> THEN 0
    ELSE (IF Head(text) = "\n" THEN 1 ELSE 0) + LineFeeds(Tail(text))

\* the windows pushed so far cover the lines 1..pure.i, each once and in
\* order, with at least one and at most maxLines lines each, and hold the
\* text of their lines
TilesSoFar ==
    LET out == pure.out
        n == Len(pure.lines)
    IN  /\ n = LineFeeds(pure.in.text) + 1
        /\ out # << >> => out[1].start = 1
        /\ \A k \in 2..Len(out) : out[k].start = out[k - 1].end + 1
        /\ \A k \in DOMAIN out :
              /\ out[k].start <= out[k].end
              /\ out[k].end <= n
              /\ out[k].end - out[k].start + 1 <= pure.in.maxLines
              /\ out[k].text
                    = JoinLines([m \in 1..(out[k].end - out[k].start + 1) |->
                                    pure.lines[out[k].start + m - 1]])
        /\ pure.pc = "loop" =>
              /\ pure.i < n
              /\ pure.i = IF out = << >> THEN 0 ELSE out[Len(out)].end
        /\ pure.pc = "done" => (out # << >> /\ out[Len(out)].end = n)

\* C40: for every text, every integer maxLines >= 1 and overlap >= 0,
\* chunkByLines terminates, and its windows have 1-based inclusive line
\* ranges that tile the lines 1..n: the first starts at 1, each next one
\* starts one after the end of the one before, the last ends at n, and each
\* has at most maxLines lines.
C40_TilesAndTerminates == []TilesSoFar /\ <>(pure.pc = "done")

\* C40 (witness): a call with maxLines 2 and an overlap of 2 on a text of
\* three lines, one of them ended by "\r\n", has returned two windows, the
\* second of one line.
C40_Witness ==
    /\ pure.op = "chunkByLines"
    /\ pure.pc = "done"
    /\ pure.in.overlap = 2
    /\ pure.in.maxLines = 2
    /\ \E k \in 1..(Len(pure.in.text) - 1) :
          pure.in.text[k] = "\r" /\ pure.in.text[k + 1] = "\n"
    /\ Len(pure.lines) = 3
    /\ Len(pure.out) = 2
    /\ pure.out[2].start = pure.out[2].end

====
